---- MODULE Spec2Model ----
(***************************************************************************)
(* A model of ConServ (SaeedBadree/TBSL-CBSL-AI): the CSV price loaders of *)
(* loaders.py, the delivery-fee arithmetic of app.py and the staff/shop    *)
(* handlers of app.py that write invoices, receipts and orders.            *)
(*                                                                         *)
(* Numbers.  Python floats are modelled by exact rationals <<n, d>> with   *)
(* d > 0 in lowest terms, so that 380 / (20 * 0.3048) is a value the model *)
(* can compare exactly.  Text is modelled by TLA+ strings, read character  *)
(* by character with SubSeq.                                               *)
(***************************************************************************)
EXTENDS Integers, Sequences, FiniteSets, TLC

(***************************************************************************)
(* Rational arithmetic                                                     *)
(***************************************************************************)
Abs(n) == IF n < 0 THEN -n ELSE n

RECURSIVE Gcd(_, _)
Gcd(a, b) == IF b = 0 THEN a ELSE Gcd(b, a % b)

\* the rational n/d (d # 0) in lowest terms with a positive denominator
Rat(n, d) ==
    LET g == Gcd(Abs(n), Abs(d))
        s == IF d < 0 THEN -1 ELSE 1
    IN  <<(s * n) \div g, (s * d) \div g>>

RInt(n)    == <<n, 1>>
RZero      == RInt(0)
RAdd(a, b) == Rat(a[1] * b[2] + b[1] * a[2], a[2] * b[2])
RSub(a, b) == Rat(a[1] * b[2] - b[1] * a[2], a[2] * b[2])
RMul(a, b) == Rat(a[1] * b[1], a[2] * b[2])
RDiv(a, b) == Rat(a[1] * b[2], a[2] * b[1])
RNeg(a)    == <<-a[1], a[2]>>
RLt(a, b)  == a[1] * b[2] < b[1] * a[2]
RLe(a, b)  == a[1] * b[2] <= b[1] * a[2]
RMin(a, b) == IF RLt(b, a) THEN b ELSE a
RMax(a, b) == IF RLt(a, b) THEN b ELSE a
RIsZero(a) == a[1] = 0
\* floor of a rational (\div rounds towards minus infinity)
RFloor(a)  == a[1] \div a[2]

RECURSIVE RPowNat(_, _)
RPowNat(a, k) == IF k = 0 THEN RInt(1) ELSE RMul(a, RPowNat(a, k - 1))

(***************************************************************************)
(* Text helpers: the str methods and regular expressions loaders.py uses   *)
(***************************************************************************)
Ch(s, i) == SubSeq(s, i, i)

DigitVal == ("0" :> 0) @@ ("1" :> 1) @@ ("2" :> 2) @@ ("3" :> 3) @@ ("4" :> 4) @@
            ("5" :> 5) @@ ("6" :> 6) @@ ("7" :> 7) @@ ("8" :> 8) @@ ("9" :> 9)

IsDigit(c) == c \in DOMAIN DigitVal

UpperOf == ("a" :> "A") @@ ("b" :> "B") @@ ("c" :> "C") @@ ("d" :> "D") @@
           ("e" :> "E") @@ ("f" :> "F") @@ ("g" :> "G") @@ ("h" :> "H") @@
           ("i" :> "I") @@ ("j" :> "J") @@ ("k" :> "K") @@ ("l" :> "L") @@
           ("m" :> "M") @@ ("n" :> "N") @@ ("o" :> "O") @@ ("p" :> "P") @@
           ("q" :> "Q") @@ ("r" :> "R") @@ ("s" :> "S") @@ ("t" :> "T") @@
           ("u" :> "U") @@ ("v" :> "V") @@ ("w" :> "W") @@ ("x" :> "X") @@
           ("y" :> "Y") @@ ("z" :> "Z")

IsUpperLetter(c) == \E l \in DOMAIN UpperOf : UpperOf[l] = c

\* \w of the re module, on the characters of the model
IsWordCh(c) == IsDigit(c) \/ c \in DOMAIN UpperOf \/ IsUpperLetter(c) \/ c = "_"

\* str.upper()
RECURSIVE Upper(_)
Upper(s) ==
    IF s = "" THEN ""
    ELSE LET c == Ch(s, 1)
         IN  (IF c \in DOMAIN UpperOf THEN UpperOf[c] ELSE c) \o Upper(Tail(s))

\* str.lower()
RECURSIVE Lower(_)
Lower(s) ==
    IF s = "" THEN ""
    ELSE LET c == Ch(s, 1)
         IN  (IF IsUpperLetter(c) THEN CHOOSE l \in DOMAIN UpperOf : UpperOf[l] = c
              ELSE c) \o Lower(Tail(s))

\* s[i:].startswith(sub), i counted from 1
StartsWithAt(s, sub, i) ==
    /\ i >= 1
    /\ i + Len(sub) - 1 <= Len(s)
    /\ SubSeq(s, i, i + Len(sub) - 1) = sub

StartsWith(s, sub) == StartsWithAt(s, sub, 1)

\* sub in s
Contains(s, sub) == \E i \in 1..(Len(s) - Len(sub) + 1) : StartsWithAt(s, sub, i)

\* s.replace(sub, by) for a non-empty sub: leftmost occurrences, not
\* overlapping, in one pass
RECURSIVE ReplaceAll(_, _, _)
ReplaceAll(s, sub, by) ==
    IF s = "" THEN ""
    ELSE IF StartsWith(s, sub)
         THEN by \o ReplaceAll(SubSeq(s, Len(sub) + 1, Len(s)), sub, by)
         ELSE Ch(s, 1) \o ReplaceAll(Tail(s), sub, by)

RemoveAll(s, sub) == ReplaceAll(s, sub, "")

RECURSIVE LStrip(_)
LStrip(s) == IF s # "" /\ Ch(s, 1) = " " THEN LStrip(Tail(s)) ELSE s

RECURSIVE RStrip(_)
RStrip(s) ==
    IF s # "" /\ Ch(s, Len(s)) = " " THEN RStrip(SubSeq(s, 1, Len(s) - 1)) ELSE s

\* str.strip()
Strip(s) == RStrip(LStrip(s))

\* a word boundary \b between s[i-1] and s[i] (positions from 1; i in 1..Len+1)
WordBoundaryAt(s, i) ==
    LET before == i > 1 /\ IsWordCh(Ch(s, i - 1))
        after  == i <= Len(s) /\ IsWordCh(Ch(s, i))
    IN  before # after

RECURSIVE Pow10(_)
Pow10(k) == IF k = 0 THEN 1 ELSE 10 * Pow10(k - 1)

RECURSIVE DigitsToNat(_)
DigitsToNat(s) ==
    IF s = "" THEN 0
    ELSE 10 * DigitsToNat(SubSeq(s, 1, Len(s) - 1)) + DigitVal[Ch(s, Len(s))]

CountDots(s) == Cardinality({i \in 1..Len(s) : Ch(s, i) = "."})

\* the value of a decimal numeral (digits with at most one dot and a digit)
DecVal(tok) ==
    LET dots == {i \in 1..Len(tok) : Ch(tok, i) = "."}
        frac == IF dots = {} THEN 0 ELSE Len(tok) - (CHOOSE i \in dots : TRUE)
    IN  Rat(DigitsToNat(RemoveAll(tok, ".")), Pow10(frac))

\* the end of the run of digits that starts at i (i - 1 when s[i] is no digit)
RECURSIVE DigitsEnd(_, _)
DigitsEnd(s, i) ==
    IF i <= Len(s) /\ IsDigit(Ch(s, i)) THEN DigitsEnd(s, i + 1) ELSE i - 1

(***************************************************************************)
(* eval(s) of to_float: Python's arithmetic on the characters the guard of *)
(* to_float lets through (digits, dot, space, / * + -).  A result is       *)
(* [ok, val]: ok is FALSE when Python raises (SyntaxError,                 *)
(* ZeroDivisionError), which to_float catches.                             *)
(***************************************************************************)
OpChars == {"/", "*", "+", "-"}

NumTok(v) == [k |-> "num", o |-> "", v |-> v]
OpTok(o)  == [k |-> "op", o |-> o, v |-> RZero]

\* the end of the number literal that starts at i: digits [. digits] or . digits
NumEnd(s, i) ==
    IF IsDigit(Ch(s, i))
    THEN LET e == DigitsEnd(s, i)
         IN  IF e < Len(s) /\ Ch(s, e + 1) = "." THEN DigitsEnd(s, e + 2) ELSE e
    ELSE DigitsEnd(s, i + 1)

\* Python rejects an integer literal with a leading zero unless it is all zeros
BadLeadingZero(lit) ==
    /\ CountDots(lit) = 0
    /\ Len(lit) > 1
    /\ Ch(lit, 1) = "0"
    /\ \E i \in 1..Len(lit) : Ch(lit, i) # "0"

\* the tokens of s from position i on; ok is FALSE on a lexical error
RECURSIVE Tokenize(_, _)
Tokenize(s, i) ==
    IF i > Len(s) THEN [ok |-> TRUE, toks |-> <<>>]
    ELSE LET c == Ch(s, i) IN
      IF c = " " THEN Tokenize(s, i + 1)
      ELSE IF c \in OpChars
      THEN LET two  == i < Len(s) /\ c \in {"*", "/"} /\ Ch(s, i + 1) = c
               rest == Tokenize(s, IF two THEN i + 2 ELSE i + 1)
           IN  [ok   |-> rest.ok,
                toks |-> <<OpTok(IF two THEN c \o c ELSE c)>> \o rest.toks]
      ELSE IF c = "." /\ ~(i < Len(s) /\ IsDigit(Ch(s, i + 1)))
      THEN [ok |-> FALSE, toks |-> <<>>]
      ELSE LET e    == NumEnd(s, i)
               lit  == SubSeq(s, i, e)
               rest == Tokenize(s, e + 1)
           IN  IF BadLeadingZero(lit) THEN [ok |-> FALSE, toks |-> <<>>]
               ELSE [ok |-> rest.ok, toks |-> <<NumTok(DecVal(lit))>> \o rest.toks]

EvalFail == [ok |-> FALSE, val |-> RZero, pos |-> 0]
EvalOk(v, p) == [ok |-> TRUE, val |-> v, pos |-> p]

IsOpAt(t, p, o) == p <= Len(t) /\ t[p].k = "op" /\ t[p].o = o

\* base ** e for an integer e (0 ** negative raises ZeroDivisionError); the
\* model has no value for a fractional exponent, which no price of it uses
PyPow(base, e, p) ==
    CASE e[2] = 1 /\ e[1] >= 0 -> EvalOk(RPowNat(base, e[1]), p)
      [] e[2] = 1 /\ e[1] < 0 /\ RIsZero(base) -> EvalFail
      [] e[2] = 1 /\ e[1] < 0 /\ ~RIsZero(base) ->
             EvalOk(RDiv(RInt(1), RPowNat(base, -e[1])), p)

RECURSIVE ParseFactor(_, _)
\* power: atom ['**' factor]
ParsePower(t, p) ==
    IF p > Len(t) \/ t[p].k # "num" THEN EvalFail
    ELSE IF IsOpAt(t, p + 1, "**")
         THEN LET e == ParseFactor(t, p + 2)
              IN  IF e.ok THEN PyPow(t[p].v, e.val, e.pos) ELSE EvalFail
         ELSE EvalOk(t[p].v, p + 1)

\* factor: ('+' | '-') factor | power
ParseFactor(t, p) ==
    IF IsOpAt(t, p, "+") THEN ParseFactor(t, p + 1)
    ELSE IF IsOpAt(t, p, "-")
         THEN LET f == ParseFactor(t, p + 1)
              IN  IF f.ok THEN EvalOk(RNeg(f.val), f.pos) ELSE EvalFail
         ELSE ParsePower(t, p)

\* acc <op> f for the operator o of a term; x / 0 and x // 0 raise
TermValue(o, acc, f) ==
    IF o = "*" THEN [ok |-> TRUE, val |-> RMul(acc, f)]
    ELSE IF RIsZero(f) THEN [ok |-> FALSE, val |-> RZero]
    ELSE IF o = "/" THEN [ok |-> TRUE, val |-> RDiv(acc, f)]
    ELSE [ok |-> TRUE, val |-> RInt(RFloor(RDiv(acc, f)))]

\* term: factor (('*' | '/' | '//') factor)*, left to right from the value acc
RECURSIVE ParseTermRest(_, _, _)
TermApply(t, f, v) ==
    IF f.ok /\ v.ok THEN ParseTermRest(t, f.pos, v.val) ELSE EvalFail

TermNext(t, p, acc, f) == TermApply(t, f, TermValue(t[p].o, acc, f.val))

ParseTermRest(t, p, acc) ==
    IF IsOpAt(t, p, "*") \/ IsOpAt(t, p, "/") \/ IsOpAt(t, p, "//")
    THEN TermNext(t, p, acc, ParseFactor(t, p + 1))
    ELSE EvalOk(acc, p)

TermStart(t, f) == IF f.ok THEN ParseTermRest(t, f.pos, f.val) ELSE EvalFail

ParseTerm(t, p) == TermStart(t, ParseFactor(t, p))

\* arith: term (('+' | '-') term)*
RECURSIVE ParseArithRest(_, _, _)
ArithNext(t, p, acc, f) ==
    IF ~f.ok THEN EvalFail
    ELSE ParseArithRest(t, f.pos,
                        IF t[p].o = "+" THEN RAdd(acc, f.val) ELSE RSub(acc, f.val))

ParseArithRest(t, p, acc) ==
    IF IsOpAt(t, p, "+") \/ IsOpAt(t, p, "-")
    THEN ArithNext(t, p, acc, ParseTerm(t, p + 1))
    ELSE EvalOk(acc, p)

ArithStart(t, f) == IF f.ok THEN ParseArithRest(t, f.pos, f.val) ELSE EvalFail

ParseArith(t, p) == ArithStart(t, ParseTerm(t, p))

\* the whole of the tokens must be one expression
EvalWhole(toks, r) == IF r.ok /\ r.pos = Len(toks) + 1 THEN r ELSE EvalFail

EvalTokens(tk) == IF tk.ok THEN EvalWhole(tk.toks, ParseArith(tk.toks, 1)) ELSE EvalFail

\* eval(s)
PyEval(s) == EvalTokens(Tokenize(s, 1))

(***************************************************************************)
(* to_float.  A result is [tag, val]: tag "val" with the number, "none"    *)
(* for None, "raise" when to_float raises (float() of a token that is no   *)
(* numeral, outside the try block).                                        *)
(***************************************************************************)
FVal(v) == [tag |-> "val", val |-> v]
FNone   == [tag |-> "none", val |-> RZero]
FRaise  == [tag |-> "raise", val |-> RZero]
\* to_float has not returned yet
FPending == [tag |-> "pending", val |-> RZero]

IsNumCh(c) == IsDigit(c) \/ c = "."

\* re.match(r"^[\d\.\s/*+-]+$", s)
FormulaChars(s) ==
    /\ s # ""
    /\ \A i \in 1..Len(s) : IsNumCh(Ch(s, i)) \/ Ch(s, i) = " " \/ Ch(s, i) \in OpChars

\* the start of the run of [\d\.] characters that ends at e
RECURSIVE NumRunStart(_, _)
NumRunStart(s, e) ==
    IF e >= 1 /\ IsNumCh(Ch(s, e)) THEN NumRunStart(s, e - 1) ELSE e + 1

\* re.findall(r"[\d\.]+", s)[-1]; "" when findall finds nothing
NumRunEndingAt(s, e) == SubSeq(s, NumRunStart(s, e), e)

SetMax(S) == CHOOSE i \in S : \A j \in S : j <= i
SetMin(S) == CHOOSE i \in S : \A j \in S : i <= j

LastNumTokenIn(s, ends) == IF ends = {} THEN "" ELSE NumRunEndingAt(s, SetMax(ends))

LastNumToken(s) == LastNumTokenIn(s, {i \in 1..Len(s) : IsNumCh(Ch(s, i))})

\* float(tok) for a token of digits and dots: a ValueError unless it is a numeral
IsNumeral(tok) == CountDots(tok) <= 1 /\ (\E i \in 1..Len(tok) : IsDigit(Ch(tok, i)))

PyFloat(tok) == IF IsNumeral(tok) THEN FVal(DecVal(tok)) ELSE FRaise

\* the cleaning of line 20
CleanPrice(x) == Strip(RemoveAll(RemoveAll(RemoveAll(x, ","), "$"), "TTD"))

\* lines 26-27: the last number-like token, None when there is none
TokenFloat(tok) == IF tok = "" THEN FNone ELSE PyFloat(tok)

\* line 23, and lines 24-27 when eval raised
EvalOrToken(s, ev) == IF ev.ok THEN FVal(ev.val) ELSE TokenFloat(LastNumToken(s))

\* lines 21-27 on the cleaned text
FloatOfClean(s) ==
    IF (\E i \in 1..Len(s) : Ch(s, i) \in OpChars) /\ FormulaChars(s)
    THEN EvalOrToken(s, PyEval(s))
    ELSE TokenFloat(LastNumToken(s))

\* to_float without the formula branch of lines 21-25
to_float_NoFormula(x) == TokenFloat(LastNumToken(CleanPrice(x)))

to_float(x) == FloatOfClean(CleanPrice(x))

(***************************************************************************)
(* Lengths, rebar sizes and grades read from an item name                  *)
(***************************************************************************)
FT_TO_M        == Rat(3048, 10000)
DEFAULT_19FT_M == RMul(RInt(19), FT_TO_M)

\* KG_PER_M.get(size): RZero stands for None (no such size)
KG_PER_M(size) ==
    CASE size = "3/8" -> Rat(560, 1000)
      [] size = "1/2" -> Rat(994, 1000)
      [] size = "5/8" -> Rat(1550, 1000)
      [] size = "3/4" -> Rat(2260, 1000)
      [] OTHER -> RZero

\* a length [val, unit]; NoLength stands for (None, None)
NoLength == [val |-> RZero, unit |-> ""]

\* the end of the spaces that start at i (i - 1 when s[i] is no space)
RECURSIVE SpacesEnd(_, _)
SpacesEnd(s, i) ==
    IF i <= Len(s) /\ Ch(s, i) = " " THEN SpacesEnd(s, i + 1) ELSE i - 1

\* the end of (\d+(\.\d+)?) matched greedily from the digit at i
FractionEnd(s, e) ==
    IF e + 1 < Len(s) /\ Ch(s, e + 1) = "." /\ IsDigit(Ch(s, e + 2))
    THEN DigitsEnd(s, e + 2) ELSE e

DecimalEnd(s, i) == FractionEnd(s, DigitsEnd(s, i))

\* one of the unit words, then \b, at position q
UnitWordAt(s, q, units) ==
    \E u \in units : StartsWithAt(s, u, q) /\ WordBoundaryAt(s, q + Len(u))

\* (\d+(\.\d+)?)\s*(U1|U2|...)\b matches with the number starting at i
NumUnitAt(s, i, units) ==
    /\ i <= Len(s) /\ IsDigit(Ch(s, i))
    /\ UnitWordAt(s, SpacesEnd(s, DecimalEnd(s, i) + 1) + 1, units)

LengthAt(s, i, unit) == [val |-> DecVal(SubSeq(s, i, DecimalEnd(s, i))), unit |-> unit]

LeftmostLength(s, starts, unit) ==
    IF starts = {} THEN NoLength ELSE LengthAt(s, SetMin(starts), unit)

\* re.search of that pattern: the number of the leftmost match, NoLength if none
SearchNumUnit(s, units, unit) ==
    LeftmostLength(s, {i \in 1..Len(s) : NumUnitAt(s, i, units)}, unit)

\* (?!\s*(MM|CM|M)) at position p
MetricAt(s, q) == StartsWithAt(s, "M", q) \/ StartsWithAt(s, "CM", q)

NoMetricAhead(s, p) == ~MetricAt(s, SpacesEnd(s, p) + 1)

\* \b(?!\s*(MM|CM|M)) after a number that ends at e
ImplicitTail(s, e) == WordBoundaryAt(s, e + 1) /\ NoMetricAhead(s, e + 1)

\* the end of the number of x\s*(\d+(\.\d+)?)\b(?!\s*(MM|CM|M)) whose digits
\* start at d: the longest number first, then the number without its
\* fraction; 0 when neither is followed as the pattern asks
ImplicitNumEnd(s, d) ==
    IF ~(d <= Len(s) /\ IsDigit(Ch(s, d))) THEN 0
    ELSE IF ImplicitTail(s, DecimalEnd(s, d)) THEN DecimalEnd(s, d)
    ELSE IF ImplicitTail(s, DigitsEnd(s, d)) THEN DigitsEnd(s, d)
    ELSE 0

\* the same with the letter of the pattern at i
ImplicitEnd(s, i, letter) ==
    IF Ch(s, i) = letter THEN ImplicitNumEnd(s, SpacesEnd(s, i + 1) + 1) ELSE 0

\* lines 73-75: the number is a length in feet when it is between 5 and 40
FeetIfPlausible(val) ==
    IF RLe(RInt(5), val) /\ RLe(val, RInt(40)) THEN [val |-> val, unit |-> "ft"]
    ELSE NoLength

ImplicitAt(up, i, letter) ==
    FeetIfPlausible(DecVal(SubSeq(up, SpacesEnd(up, i + 1) + 1, ImplicitEnd(up, i, letter))))

LeftmostImplicit(up, starts, letter) ==
    IF starts = {} THEN NoLength ELSE ImplicitAt(up, SetMin(starts), letter)

\* the third rule of parse_length (lines 70-75): the pattern is searched in
\* the upper-cased text for the letter it names
ImplicitFeet(up, letter) ==
    LeftmostImplicit(up, {i \in 1..Len(up) : ImplicitEnd(up, i, letter) > 0}, letter)

\* the letter the implicit pattern of line 71 names: a lower-case x
ImplicitLetter == "x"

\* the first of the three rules that finds a length
FirstLength(m, f, x) == IF m.unit # "" THEN m ELSE IF f.unit # "" THEN f ELSE x

LengthOfUpper(up) ==
    FirstLength(SearchNumUnit(up, {"M", "METERS", "METRES"}, "m"),
                SearchNumUnit(up, {"FT", "FEET", "FOOT"}, "ft"),
                ImplicitFeet(up, ImplicitLetter))

parse_length(text) == LengthOfUpper(Upper(text))

\* \bW\b somewhere in s
WholeWord(s, w) ==
    \E i \in 1..Len(s) :
        /\ StartsWithAt(s, w, i)
        /\ WordBoundaryAt(s, i)
        /\ WordBoundaryAt(s, i + Len(w))

\* the pattern \bA/B\b|NNMM of one size
SizePattern(up, frac, mm) == WholeWord(up, frac) \/ Contains(up, mm)

SizeOfSquashed(up) ==
    IF SizePattern(up, "3/8", "10MM") THEN "3/8"
    ELSE IF SizePattern(up, "1/2", "12MM") THEN "1/2"
    ELSE IF SizePattern(up, "5/8", "16MM") THEN "5/8"
    ELSE IF SizePattern(up, "3/4", "20MM") THEN "3/4"
    ELSE ""

\* "" stands for None
steel_size_from_text(text) == SizeOfSquashed(RemoveAll(Upper(text), " "))

GradeOfUpper(up) ==
    IF \E w \in {"CORR", "DEFORM", "RIB", "TENS"} : Contains(up, w)
    THEN "corrugated"
    ELSE IF Contains(up, "MILD") \/ Contains(up, "SMOOTH") \/ WholeWord(up, "MS")
    THEN "mild"
    ELSE "corrugated"

steel_grade_from_text(text) == GradeOfUpper(Upper(text))

\* a length is given: "if length_value and length_unit"
HasLength(lv, lu) == ~RIsZero(lv) /\ lu # ""

\* lines 105-109
PerKgOrStick(price, kgpm, name_up) ==
    IF (Contains(name_up, " KG") \/ Contains(name_up, "PER KG")) /\ ~RIsZero(kgpm)
    THEN RMul(price, kgpm)
    ELSE RDiv(price, DEFAULT_19FT_M)

PerMeterOfUnit(price, length_value, lu, size_in, name_up) ==
    IF ~RIsZero(length_value) /\ StartsWith(lu, "m")
    THEN RDiv(price, length_value)
    ELSE IF ~RIsZero(length_value) /\ StartsWith(lu, "f")
    THEN RDiv(price, RMul(length_value, FT_TO_M))
    ELSE PerKgOrStick(price, KG_PER_M(size_in), name_up)

\* per_meter without the feet-to-meters factor: every length counts as meters
per_meter_FeetAsMeters(price, length_value, length_unit, size_in, name_up) ==
    IF ~RIsZero(length_value) /\ length_unit # ""
    THEN RDiv(price, length_value)
    ELSE PerKgOrStick(price, KG_PER_M(size_in), name_up)

per_meter(price, length_value, length_unit, size_in, name_up) ==
    PerMeterOfUnit(price, length_value, Lower(length_unit), size_in, name_up)

(***************************************************************************)
(* One CSV row, as read_csv_rows hands it to a loader: the cells of the    *)
(* name (or key), price, length_value, length_unit, size_in and grade      *)
(* columns, stripped, "" for a missing or empty cell.                      *)
(***************************************************************************)
Row(name, price) ==
    [name |-> name, price |-> price, lv |-> "", lu |-> "", size |-> "", grade |-> ""]

\* to_float(r.get("price") or ...): an empty cell reaches to_float as None,
\* which str() turns into the text "None"
PriceOf(r) == to_float(IF r.price = "" THEN "None" ELSE r.price)

\* what a loader does with one row: "raise" (to_float raised), "skip" (the row
\* is dropped), or "ok" with the key it writes ("" for none) and the value
EntryRaise == [status |-> "raise", key |-> "", price |-> RZero]
EntrySkip  == [status |-> "skip", key |-> "", price |-> RZero]
Entry(key, price) == [status |-> "ok", key |-> key, price |-> price]

\* load_aggregates, lines 117-119, for the key k and the parsed price v
AggEntryOf(k, v) ==
    IF v.tag = "raise" THEN EntryRaise
    ELSE IF k # "" /\ v.tag = "val" THEN Entry(k, v.val)
    ELSE EntrySkip

AggEntry(r) == AggEntryOf(Strip(r.name), PriceOf(r))

\* float(lv) if lv not in (None, "") else None, None on an exception; RZero
\* stands for None, which the loader tells from 0.0 nowhere
LengthCell(s) ==
    IF s # "" /\ (\A i \in 1..Len(s) : IsNumCh(Ch(s, i))) /\ IsNumeral(s)
    THEN DecVal(s)
    ELSE RZero

\* lines 150-152 and 177-179: the columns lv, lu completed by parse_length
CompleteLength(lv, lu, pl) ==
    IF RIsZero(lv) \/ lu = ""
    THEN [val  |-> IF RIsZero(lv) THEN pl.val ELSE lv,
          unit |-> IF lu = "" THEN pl.unit ELSE lu]
    ELSE [val |-> lv, unit |-> lu]

\* lines 145-152 and 172-179
RowLength(r, up) == CompleteLength(LengthCell(r.lv), r.lu, parse_length(up))

\* lines 153-156 and 254-257: a purlin's price per meter
PurlinPerMOfUnit(price, lv, lu) ==
    IF ~RIsZero(lv) /\ StartsWith(lu, "m") THEN RDiv(price, lv)
    ELSE IF ~RIsZero(lv) /\ StartsWith(lu, "f") THEN RDiv(price, RMul(lv, FT_TO_M))
    ELSE price

PurlinPerM(price, len) == PurlinPerMOfUnit(price, len.val, Lower(len.unit))

\* lines 157-158 and 258-259; "" stands for None
PurlinKind(up) ==
    IF Contains(" " \o up \o " ", " Z ") \/ StartsWith(up, "Z ") THEN "purlin_z_m"
    ELSE IF Contains(" " \o up \o " ", " C ") \/ StartsWith(up, "C ") THEN "purlin_c_m"
    ELSE ""

\* lines 180-182: the default stick of a rebar row
DefaultStick(len) ==
    IF HasLength(len.val, len.unit) THEN len ELSE [val |-> RInt(19), unit |-> "ft"]

RebarLength(r, up) == DefaultStick(RowLength(r, up))

\* line 169
RebarSize(r, up) == IF r.size # "" THEN r.size ELSE steel_size_from_text(up)

\* line 170
RebarGrade(r, up) == Lower(IF r.grade # "" THEN r.grade ELSE steel_grade_from_text(up))

\* line 186; "" (no key) when there is no size
RebarKey(size_in, grade) ==
    IF size_in = "" THEN ""
    ELSE "rebar_" \o (IF StartsWith(grade, "corr") THEN "corr" ELSE "mild") \o "_"
                  \o ReplaceAll(size_in, "/", "_") \o "_m"

\* line 184
RebarPerM(price, len, size_in, up) == per_meter(price, len.val, len.unit, size_in, up)

\* lines 143-193 for a row with the name up and the price
SteelKept(r, up, price) ==
    IF Contains(up, "PURLIN")
    THEN Entry(PurlinKind(up), PurlinPerM(price, RowLength(r, up)))
    ELSE Entry(RebarKey(RebarSize(r, up), RebarGrade(r, up)),
               RebarPerM(price, RebarLength(r, up), RebarSize(r, up), up))

\* lines 139-140, 212-213: a row with no name or no price is skipped
RowFate(r, p) ==
    IF p.tag = "raise" THEN "raise"
    ELSE IF r.name = "" \/ p.tag = "none" THEN "skip"
    ELSE "ok"

SteelEntryOf(r, p) ==
    CASE RowFate(r, p) = "raise" -> EntryRaise
      [] RowFate(r, p) = "skip" -> EntrySkip
      [] RowFate(r, p) = "ok" -> SteelKept(r, Upper(r.name), p.val)

\* one row of load_steel, lines 135-193
SteelEntry(r) == SteelEntryOf(r, PriceOf(r))

\* the record load_steel appends to rows for the row it keeps with the entry
\* e (lines 161-165, 188-193)
SteelMetaOf(r, up, unit_price, e) ==
    IF Contains(up, "PURLIN")
    THEN [name |-> r.name, kind |-> "purlin", size_in |-> "", grade |-> "",
          length |-> RowLength(r, up),
          unit_price |-> unit_price, price_per_m |-> e.price]
    ELSE [name |-> r.name, kind |-> "rebar", size_in |-> RebarSize(r, up),
          grade |-> RebarGrade(r, up), length |-> RebarLength(r, up),
          unit_price |-> unit_price, price_per_m |-> e.price]

SteelMeta(r, p, e) == SteelMetaOf(r, Upper(r.name), p.val, e)

\* "?\b at position q
QuoteBoundaryAt(up, q) ==
    \/ WordBoundaryAt(up, q)
    \/ q <= Len(up) /\ Ch(up, q) = "\"" /\ WordBoundaryAt(up, q + 1)

\* (^|\s)D\s*"?\b somewhere in up, for the digit D
BlockDigit(up, d) ==
    \E i \in 1..Len(up) :
        /\ Ch(up, i) = d
        /\ i = 1 \/ Ch(up, i - 1) = " "
        /\ \E q \in (i + 1)..(SpacesEnd(up, i + 1) + 1) : QuoteBoundaryAt(up, q)

\* lines 229-232: the three tests run in turn, a later one overwriting
BlockSize(up) ==
    IF BlockDigit(up, "8") \/ Contains(up, "8X8X16") THEN "8"
    ELSE IF BlockDigit(up, "6") \/ Contains(up, "6X8X16") THEN "6"
    ELSE IF BlockDigit(up, "4") \/ Contains(up, "4X8X16") THEN "4"
    ELSE ""

\* lines 233-235; "" stands for None
BlockKeyOf(size, clay) ==
    IF size = "" THEN ""
    ELSE IF clay /\ size = "4" THEN "block_clay_4in"
    ELSE IF ~clay THEN "block_" \o size \o "in"
    ELSE ""

BlockKey(up) == BlockKeyOf(BlockSize(up), Contains(up, "CLAY") \/ Contains(up, "RED"))

\* line 217
IsCement(up) ==
    /\ Contains(up, "CEMENT")
    /\ ~\E w \in {"BOARD", "ADHESIVE", "THINSET", "CONTACT"} : Contains(up, w)

\* lines 218-223
CementKey(up) ==
    IF Contains(up, "PREMIUM") THEN "cement_bag_premium"
    ELSE IF Contains(up, "ECO") THEN "cement_bag_eco"
    ELSE IF Contains(up, "LOOSE") \/ Contains(up, " PER LB") \/ Contains(up, "LB")
    THEN "cement_loose_lb"
    ELSE "cement_bag"

\* lines 216-268 for a row with the name up and the price
BuildingKept(up, price) ==
    IF IsCement(up) THEN Entry(CementKey(up), price)
    ELSE IF Contains(up, "BLOCK") THEN Entry(BlockKey(up), price)
    ELSE IF Contains(up, "MESH") /\ Contains(up, "A142")
    THEN Entry("mesh_A142_sheet", price)
    ELSE IF Contains(up, "TIE WIRE") \/ Contains(up, "BINDING WIRE")
    THEN Entry("tie_wire_kg", price)
    ELSE IF Contains(up, "PURLIN")
    THEN Entry(PurlinKind(up), PurlinPerM(price, parse_length(up)))
    ELSE IF (Contains(up, "PAINT") \/ Contains(up, "EMULSION")) /\ Contains(up, "GAL")
    THEN Entry("paint_gal", price)
    ELSE Entry("", price)

BuildingEntryOf(r, p) ==
    CASE RowFate(r, p) = "raise" -> EntryRaise
      [] RowFate(r, p) = "skip" -> EntrySkip
      [] RowFate(r, p) = "ok" -> BuildingKept(Upper(r.name), p.val)

\* one row of load_building, lines 210-268
BuildingEntry(r) == BuildingEntryOf(r, PriceOf(r))

\* the nearest cent to n / d, ties to the even cent
NearestCent(q, r, d) ==
    IF 2 * r > d \/ (2 * r = d /\ q % 2 = 1) THEN Rat(q + 1, 100) ELSE Rat(q, 100)

\* round(x, 2) (Python rounds the float nearest to x; the model rounds x)
Round2(x) == NearestCent((x[1] * 100) \div x[2], (x[1] * 100) % x[2], x[2])

\* line 277: 42.5 * 2.20462 pounds in a bag
BAG_LBS == RMul(Rat(425, 10), Rat(220462, 100000))

\* prices[k] = min(prices.get(k, 1e18), v): every price of the model is below
\* the 1e18 the code starts from
MinInto(table, k, v) ==
    IF k \in DOMAIN table THEN [table EXCEPT ![k] = RMin(table[k], v)]
    ELSE table @@ (k :> v)

\* out[k] = v
StoreInto(table, k, v) ==
    IF k \in DOMAIN table THEN [table EXCEPT ![k] = v] ELSE table @@ (k :> v)

\* lines 271-278: the cement preference of the CEMENT_GRADE variable
CementPreference(table, grade) ==
    IF grade = "eco" /\ "cement_bag_eco" \in DOMAIN table
    THEN StoreInto(table, "cement_bag", table["cement_bag_eco"])
    ELSE IF grade = "premium" /\ "cement_bag_premium" \in DOMAIN table
    THEN StoreInto(table, "cement_bag", table["cement_bag_premium"])
    ELSE IF grade = "loose" /\ "cement_loose_lb" \in DOMAIN table
    THEN StoreInto(table, "cement_bag", Round2(RMul(BAG_LBS, table["cement_loose_lb"])))
    ELSE table

(***************************************************************************)
(* The rows the model reads: price lists of a few rows drawn from these    *)
(***************************************************************************)
MaxRows == 2

AggPool ==
    { Row("sand_m3", "100"), Row("sand_m3", "200"), Row("gravel_m3", "390*1.308"),
      Row("gravel_m3", "$1,090.00"), Row("", "50"), Row("sand_m3", "n.a."),
      Row("gravel_m3", "") }

SteelPool ==
    { Row("Rebar 1/2 corr 6m", "60"), Row("Rebar 3/8 corr", "57"),
      Row("REBAR 12MM MILD", "45"), Row("Rebar 12mm mild 9m", "TTD 90"),
      Row("Rebar 12mm mild per kg", "10"),
      [Row("Rebar corr", "66") EXCEPT !.size = "1/2"],
      [Row("Rebar 16mm", "90") EXCEPT !.lv = "9", !.lu = "m"],
      Row("Z Purlin 2x4x20", "380"), Row("C Purlin 20ft", "300"),
      Row("", "10"), Row("Rebar 5/8", "abc"), Row("Rebar 16mm 20ft", "n.a.") }

BuildingPool ==
    { Row("Z Purlin 2x4x20", "380"), Row("Z Purlin 20ft", "400"),
      Row("C Purlin 6m", "150"), Row("Cement", "50"), Row("Eco cement", "40"),
      Row("Loose cement per lb", "0.5"), Row("4 inch block", "6"),
      Row("Clay block 4", "7"), Row("Mesh A142", "300"), Row("Hammer", "25"),
      Row("Cement", "n.a."), Row("", "5"), Row("C Purlin 3x6x30", "600"),
      Row("Block 4 x 8 x 16", "9") }

CementGrades == {"", "eco", "loose"}

PoolOf(l) ==
    CASE l = "aggregates" -> AggPool
      [] l = "steel" -> SteelPool
      [] l = "building" -> BuildingPool

\* the lists of 1..MaxRows rows of a pool
FilesOf(pool) == UNION {[1..n -> pool] : n \in 1..MaxRows}

EmptyPrices == [k \in {} |-> RZero]

\* a text for to_float: a formula a op b [op2 c], or a price with a currency
\* token or separators ("money", with the value written in it), or a text with
\* no number in it ("junk")
FloatIn(kind, a, op, b, op2, c, text, value) ==
    [kind |-> kind, a |-> a, op |-> op, b |-> b, op2 |-> op2, c |-> c,
     text |-> text, value |-> value]

NoFloatIn == FloatIn("none", "", "", "", "", "", "", RZero)

FormulaOperands == {"390", "1.308", "2", "0.5", "12", "0"}
FormulaOps      == {"*", "/", "+", "-", " * ", " + "}
TernaryOperands == {"2", "0.5", "12"}
TernaryOps      == {"*", "/", "+", "-"}

FormulaInputs ==
    {FloatIn("formula", a, op, b, "", "", a \o op \o b, RZero) :
        a \in FormulaOperands, op \in FormulaOps, b \in FormulaOperands}

TernaryInputs ==
    {FloatIn("formula", a, op, b, op2, c, a \o op \o b \o op2 \o c, RZero) :
        a \in TernaryOperands, op \in TernaryOps, b \in TernaryOperands,
        op2 \in TernaryOps, c \in TernaryOperands}

MoneyInputs ==
    { FloatIn("money", "", "", "", "", "", "$1,090.00", RInt(1090)),
      FloatIn("money", "", "", "", "", "", "1,090.00", RInt(1090)),
      FloatIn("money", "", "", "", "", "", "$350", RInt(350)),
      FloatIn("money", "", "", "", "", "", "TTD 95", RInt(95)),
      FloatIn("money", "", "", "", "", "", "TTD1,250.50", Rat(125050, 100)),
      FloatIn("money", "", "", "", "", "", " $ 12,000 ", RInt(12000)) }

JunkInputs ==
    {FloatIn("junk", "", "", "", "", "", s, RZero) :
        s \in {"", "None", "call", "n.a.", ".", "TTD", "-", "1.2.3"}}

FloatInputs == FormulaInputs \cup TernaryInputs \cup MoneyInputs \cup JunkInputs

(***************************************************************************)
(* Delivery fees (app.py): compute_delivery_fee_km and /api/delivery-quote *)
(***************************************************************************)
\* float(os.getenv(name, default)) for the text of an environment variable
EnvFloat(text, default) == DecVal(IF text = "" THEN default ELSE text)

\* max(0.0, x)
Max0(x) == RMax(RZero, x)

\* compute_delivery_fee_km without the max(0, ...): a discount inside the radius
compute_delivery_fee_km_NoMax(dist_km, base_fee, per_km, free_radius) ==
    Round2(RAdd(base_fee, RMul(RSub(dist_km, free_radius), per_km)))

\* lines 94-95
compute_delivery_fee_km(dist_km, base_fee, per_km, free_radius) ==
    Round2(RAdd(base_fee, RMul(Max0(RSub(dist_km, free_radius)), per_km)))

\* a response of the fee code: the HTTP status (200 for a plain return), the
\* fee and the distance_km of the body
FeeResponse(code, fee, km) == [code |-> code, fee |-> fee, distance_km |-> km]
NoFee == FeeResponse(0, RZero, RZero)

\* line 712-713 for the distance km
QuoteOk(base, per_km, km) == FeeResponse(200, Round2(RAdd(base, RMul(per_km, km))), Round2(km))

\* the texts the delivery variables are set to, "" for unset
EnvFees  == {"", "50", "12.5"}
EnvRates == {"", "6", "2.5"}
EnvRadii == {"", "5", "2.5"}

\* the distances of the model, in meters as the Distance Matrix reports them
Meters == {0, 2500, 3000, 5000, 5001, 12345}
Kilometers == {Rat(m, 1000) : m \in Meters}

(***************************************************************************)
(* Staff purchases and receipts (app.py) and _validate_purchase_lines      *)
(* (ai_text.py).  None stands for Python's None where a number may be      *)
(* missing; ids count from 1 and 0 stands for "no id".                     *)
(***************************************************************************)
None == <<0, 0>>

\* x or 0
OrZero(x) == IF x = None THEN RZero ELSE x

\* the nearest multiple of 1/s to a number with the quotient q and the rest r
\* by d, ties to the even one
NearestAt(q, r, d, s) ==
    IF 2 * r > d \/ (2 * r = d /\ q % 2 = 1) THEN Rat(q + 1, s) ELSE Rat(q, s)

\* round(x, 4)
Round4(x) == NearestAt((x[1] * 10000) \div x[2], (x[1] * 10000) % x[2], x[2], 10000)

\* one element of lines[] in the body of POST /api/staff/purchases
PLine(id, description, unit, qty, unit_price, line_total) ==
    [id |-> id, description |-> description, unit |-> unit, qty |-> qty,
     unit_price |-> unit_price, line_total |-> line_total]

\* a PurchaseLineItem row
PurchaseLineItem(id, invoice_id, li, line_total) ==
    [id |-> id, invoice_id |-> invoice_id, description |-> li.description,
     unit |-> li.unit, quantity |-> OrZero(li.qty), unit_price |-> li.unit_price,
     line_total |-> line_total]

\* a PurchaseInvoice row, by the fields the handler computes
PurchaseInvoice(supplier_id, supplier_name, subtotal, tax, total) ==
    [supplier_id |-> supplier_id, supplier_name |-> supplier_name,
     subtotal |-> subtotal, tax |-> tax, total |-> total]

\* line 1369: a line without description, unit or positive quantity is skipped
LineKept(li) == li.description # "" /\ li.unit # "" /\ RLt(RZero, OrZero(li.qty))

\* lines 1371-1372: the total of a line is computed only when the client sent none
LineTotalOf(li) ==
    IF li.line_total = None /\ li.unit_price # None
    THEN RMul(li.unit_price, OrZero(li.qty))
    ELSE li.line_total

\* lines 1373-1374
AddTotal(subtotal, line_total) ==
    IF line_total = None THEN subtotal ELSE RAdd(subtotal, line_total)

\* Reuses without the test row.invoice_id == inv.id of line 1378
Reuses_AnyInvoice(rows, li, inv_id) ==
    li.id # 0 /\ \E r \in rows : r.id = li.id

\* lines 1376-1378: the line names a row of this invoice
Reuses(rows, li, inv_id) ==
    li.id # 0 /\ \E r \in rows : r.id = li.id /\ r.invoice_id = inv_id

\* the loop state: the rows of the session, the last id given, subtotal and
\* existing_ids
Upsert(rows, last, subtotal, existing) ==
    [rows |-> rows, last |-> last, subtotal |-> subtotal, existing |-> existing]

\* lines 1376-1400 for a kept line with the total lt
UpsertKept(st, li, inv_id, lt) ==
    IF Reuses(st.rows, li, inv_id)
    THEN Upsert({IF r.id = li.id THEN PurchaseLineItem(li.id, inv_id, li, lt) ELSE r :
                     r \in st.rows},
                st.last, AddTotal(st.subtotal, lt), st.existing \cup {li.id})
    ELSE Upsert(st.rows \cup {PurchaseLineItem(st.last + 1, inv_id, li, lt)},
                st.last + 1, AddTotal(st.subtotal, lt), st.existing \cup {st.last + 1})

\* one turn of the loop of lines 1356-1400
UpsertLine(st, li, inv_id) ==
    IF LineKept(li) THEN UpsertKept(st, li, inv_id, LineTotalOf(li)) ELSE st

RECURSIVE UpsertLines(_, _, _)
UpsertLines(lines, inv_id, st) ==
    IF lines = <<>> THEN st
    ELSE UpsertLines(Tail(lines), inv_id, UpsertLine(st, Head(lines), inv_id))

\* lines 1402-1409: on an update, the rows of the invoice the body did not name
DeleteRemoved(rows, inv_id, existing) ==
    {r \in rows : ~(r.invoice_id = inv_id /\ r.id \notin existing)}

\* lines 1411-1422: the total of the body when it has one
TotalOf(subtotal, tax, total) ==
    IF total = None THEN RAdd(subtotal, OrZero(tax)) ELSE total

\* lines 1308-1315: the supplier of the body: the id of the row found or
\* created, 0 for none
SupplierOf(body, suppliers) ==
    IF body.supplier_id # 0
    THEN (IF body.supplier_id <= Len(suppliers) THEN body.supplier_id ELSE 0)
    ELSE IF body.supplier_name # "" THEN Len(suppliers) + 1
    ELSE 0

CreatesSupplier(body) == body.supplier_id = 0 /\ body.supplier_name # ""

\* lines 1329-1351 and 1424-1426: the invoice the handler writes
InvoiceOf(body, sup, up) ==
    PurchaseInvoice(sup, IF sup # 0 THEN "" ELSE body.supplier_name,
                    Round2(up.subtotal), Round2(OrZero(body.tax)),
                    Round2(TotalOf(up.subtotal, body.tax, body.total)))

\* one element of lines[] in the body of POST /api/staff/receipts
RLine(item_name, unit, quantity, unit_price) ==
    [item_name |-> item_name, unit |-> unit, quantity |-> quantity,
     unit_price |-> unit_price]

\* line 1844
ReceiptLineKept(li) ==
    li.item_name # "" /\ RLt(RZero, OrZero(li.quantity)) /\ RLe(RZero, OrZero(li.unit_price))

\* lines 1846-1856: a SalesReceiptLine row
SalesReceiptLine(receipt_id, li) ==
    [receipt_id |-> receipt_id, item_name |-> li.item_name, unit |-> li.unit,
     quantity |-> OrZero(li.quantity), unit_price |-> OrZero(li.unit_price),
     line_total |-> RMul(OrZero(li.quantity), OrZero(li.unit_price))]

\* the rows the loop of lines 1836-1856 adds for the receipt
RECURSIVE ReceiptRows(_, _)
ReceiptRows(lines, receipt_id) ==
    IF lines = <<>> THEN <<>>
    ELSE (IF ReceiptLineKept(Head(lines))
          THEN <<SalesReceiptLine(receipt_id, Head(lines))>> ELSE <<>>)
         \o ReceiptRows(Tail(lines), receipt_id)

\* subtotal of lines 1835-1847
RECURSIVE SumRows(_)
SumRows(rows) == IF rows = <<>> THEN RZero ELSE RAdd(Head(rows).line_total, SumRows(Tail(rows)))

\* f"R{receipt.id:06d}" for an id below 10
ReceiptNo(id) == "R00000" \o (CHOOSE c \in DOMAIN DigitVal : DigitVal[c] = id)

\* lines 1829-1862: the SalesReceipt row
SalesReceipt(id, customer_name, subtotal) ==
    [customer_name |-> customer_name, subtotal |-> Round2(subtotal), tax |-> RZero,
     total |-> Round2(subtotal), receipt_no |-> ReceiptNo(id)]

\* ai_text.py line 38
ALLOWED_UNITS_STAFF == {"yd3", "m3", "m", "kg", "bag", "sheet", "pcs", "gal", "lb"}

\* _norm_unit, ai_text.py lines 115-135, on a stripped lower-case text
NormUnit(u) ==
    IF u \in {"meter", "meters", "metre", "metres"} THEN "m"
    ELSE IF u \in {"m^3", "cubic meter", "cubic meters", "cubic metre", "cubic metres"}
    THEN "m3"
    ELSE IF u = "bags" THEN "bag"
    ELSE IF u = "sheets" THEN "sheet"
    ELSE IF u \in {"pieces", "piece"} THEN "pcs"
    ELSE IF u \in {"gallon", "gallons"} THEN "gal"
    ELSE IF u \in {"pound", "pounds"} THEN "lb"
    ELSE u

\* ai_text.py lines 141-147
NormStaffOfLower(u) ==
    IF u \in {"yd", "yds", "yard", "yards", "yd^3", "cubic yard", "cubic yards"}
    THEN "yd3"
    ELSE NormUnit(u)

norm_unit_staff(u) == NormStaffOfLower(Lower(Strip(u)))

\* one element of the list handed to _validate_purchase_lines; None for a key
\* the element lacks
VLine(description, unit, qty, unit_price, line_total) ==
    [description |-> description, unit |-> unit, qty |-> qty,
     unit_price |-> unit_price, line_total |-> line_total]

\* ai_text.py lines 425-431
ValidLine(it) ==
    /\ it.qty # None
    /\ Strip(it.description) # ""
    /\ norm_unit_staff(it.unit) \in ALLOWED_UNITS_STAFF
    /\ RLt(RZero, it.qty)

Round4OrNone(x) == IF x = None THEN None ELSE Round4(x)

\* ai_text.py lines 432-455: the dict appended for a valid element
CleanLine(it) ==
    VLine(Strip(it.description), norm_unit_staff(it.unit), Round4(it.qty),
          Round4OrNone(it.unit_price),
          Round4OrNone(IF it.line_total = None /\ it.unit_price # None
                       THEN RMul(it.unit_price, it.qty) ELSE it.line_total))

RECURSIVE validate_purchase_lines(_)
validate_purchase_lines(raw) ==
    IF raw = <<>> THEN <<>>
    ELSE (IF ValidLine(Head(raw)) THEN <<CleanLine(Head(raw))>> ELSE <<>>)
         \o validate_purchase_lines(Tail(raw))

(***************************************************************************)
(* Checkout and payment (app.py): the cart loop and the Order rows         *)
(***************************************************************************)
\* a value float() raises on
NotANumber == <<1, 0>>

\* one element of the JSON cart
CartItem(productName, price, quantity) ==
    [productName |-> productName, price |-> price, quantity |-> quantity]

\* an Order row of the current user
Order(product_name, amount) ==
    [user_id |-> "current_user", product_name |-> product_name, amount |-> amount]

\* lines 1481-1482: the item carries on to the Order row
Payable(item) ==
    item.productName # "" /\ RLt(RZero, OrZero(item.price)) /\ item.quantity > 0

\* the state of the cart loop: the orders added to the session, grand_total,
\* and whether the loop raised
CartState(added, total, raised) == [added |-> added, total |-> total, raised |-> raised]

AddItem(st, name, line_total) ==
    CartState(Append(st.added, Order(name, line_total)), RAdd(st.total, line_total), FALSE)

\* lines 1477-1491 and 1541-1559
RECURSIVE CartLoop(_, _)
CartLoop(cart, st) ==
    IF cart = <<>> THEN st
    ELSE IF Head(cart).price = NotANumber THEN CartState(st.added, st.total, TRUE)
    ELSE IF ~Payable(Head(cart)) THEN CartLoop(Tail(cart), st)
    ELSE CartLoop(Tail(cart),
                  AddItem(st, Head(cart).productName,
                          RMul(Head(cart).price, RInt(Head(cart).quantity))))

\* lines 1563-1572 and 1600-1607: the Delivery order of a user with a fee
WithDelivery(st, fee) ==
    IF ~st.raised /\ RLt(RZero, OrZero(fee)) THEN AddItem(st, "Delivery", fee) ELSE st

CartPool ==
    { CartItem("sand", RInt(10), 2), CartItem("", RInt(10), 1),
      CartItem("gravel", NotANumber, 1) }

\* the outcomes of the request to WiPay: a payment url or anything else
GatewayOutcomes == {"url", "error"}

\* the haversine distance of the user's saved position
UserKm == Rat(12345, 1000)

\* the requests of the model
MaxCalls == 2
MaxLines == 2

\* the lists of at most MaxLines elements of pool
ListsOf(pool) == UNION {[1..n -> pool] : n \in 0..MaxLines}

PLinePool ==
    { PLine(0, "sand", "yd3", RInt(3), RInt(2), None),
      PLine(0, "sand", "yd3", RInt(3), RInt(2), RInt(100)),
      PLine(1, "gravel", "yd3", RInt(2), RInt(5), None),
      PLine(0, "cement", "bag", RInt(1), None, None),
      PLine(0, "", "yd3", RInt(3), RInt(2), None) }

\* the supplier, tax and total of a body
PHeader(supplier_id, supplier_name, tax, total) ==
    [supplier_id |-> supplier_id, supplier_name |-> supplier_name, tax |-> tax,
     total |-> total]

PHeaders ==
    { PHeader(0, "", None, None), PHeader(0, "ACME", Rat(3, 2), None),
      PHeader(1, "", None, RInt(999)) }

PBody(id, h, lines) ==
    [id |-> id, supplier_id |-> h.supplier_id, supplier_name |-> h.supplier_name,
     lines |-> lines, tax |-> h.tax, total |-> h.total]

PBodies == {PBody(id, h, lines) : id \in 0..MaxCalls, h \in PHeaders, lines \in ListsOf(PLinePool)}

RLinePool ==
    { RLine("sand", "yd3", RInt(2), RInt(10)),
      RLine("gravel", "yd3", Rat(333, 1000), Rat(1, 2)),
      RLine("sand", "yd3", RInt(1), None),
      RLine("", "yd3", RInt(1), RInt(1)) }

RBodies == {[customer_name |-> "Ann", lines |-> lines] : lines \in ListsOf(RLinePool)}

VLinePool ==
    { VLine("sand", "yd", RInt(3), RInt(2), None),
      VLine("sand", "yd3", RInt(3), RInt(2), RInt(100)),
      VLine(" cement ", "Bags", Rat(33333, 100000), RInt(3), None),
      VLine("sand", "furlong", RInt(3), RInt(2), None),
      VLine("sand", "m3", None, RInt(2), None) }

NoResponse == [op |-> "none", code |-> 0, id |-> 0]

(***************************************************************************)
(* The AI entry points (ai_text.py) and the pricing of their lines         *)
(* (app.py).  A JSON value the model may send where a number is expected   *)
(* is a number (NotANumber for the literal NaN, which json.loads reads), a *)
(* text, or anything float() has a TypeError on; where a text is expected  *)
(* it is a text or something that is no str.                               *)
(***************************************************************************)
\* ai_text.py line 15
MODEL == "gpt-4o-mini"

\* ai_text.py lines 18-33 and app.py lines 357-364: the same 25 keys
ALLOWED_KEYS ==
    { "sand_m3", "sharp_sand_m3", "gravel_m3", "red_sand_m3", "backfill_m3",
      "soakaway_boulders_m3", "cement_bag", "cement_bag_eco", "cement_bag_premium",
      "cement_loose_lb", "block_4in", "block_6in", "block_8in", "block_clay_4in",
      "rebar_corr_3_8_m", "rebar_corr_1_2_m", "rebar_corr_5_8_m", "rebar_mild_3_8_m",
      "rebar_mild_1_2_m", "rebar_mild_5_8_m", "mesh_A142_sheet", "tie_wire_kg",
      "purlin_z_m", "purlin_c_m", "paint_gal" }

\* ai_text.py line 35
ALLOWED_UNITS == {"m3", "m", "kg", "bag", "sheet", "pcs", "gal", "lb"}

JNum(v)  == [json |-> "number", num |-> v, text |-> ""]
JText(s) == [json |-> "string", num |-> RZero, text |-> s]
JNull    == [json |-> "null", num |-> RZero, text |-> ""]

\* float(s) of a str: the texts of the model carry no sign, exponent or
\* infinity; "nan" in any case is the float NaN
FloatOfStripped(t) ==
    IF Lower(t) = "nan" THEN FVal(NotANumber)
    ELSE IF t # "" /\ (\A i \in 1..Len(t) : IsNumCh(Ch(t, i))) THEN PyFloat(t)
    ELSE FRaise

\* float(x) of a JSON value: FRaise for the TypeError or ValueError
FloatOf(x) ==
    CASE x.json = "number" -> FVal(x.num)
      [] x.json = "string" -> FloatOfStripped(Strip(x.text))
      [] OTHER -> FRaise

\* a <= b of two floats: False when one of them is NaN
FloatLe(a, b) == a # NotANumber /\ b # NotANumber /\ RLe(a, b)

\* _norm_unit, ai_text.py lines 115-135: "" for what is no str
norm_unit(u) == IF u.json # "string" THEN "" ELSE NormUnit(Lower(Strip(u.text)))

\* one element of the list of lines of a reply: a dict with the values under
\* "key", "qty" and "unit" (key "" when the dict has none or one that is no
\* str), or something that is no dict
BomItem(key, qty, unit) == [dict |-> TRUE, key |-> key, qty |-> qty, unit |-> unit]
NoDict == [dict |-> FALSE, key |-> "", qty |-> JNull, unit |-> JNull]

\* a line _validate_lines returns
BomLine(key, qty, unit) == [key |-> key, qty |-> qty, unit |-> unit]

\* ai_text.py lines 161-170 on the float of qty and the normalized unit
LineChecks(k, qf, unit) ==
    /\ k \in ALLOWED_KEYS
    /\ qf.tag = "val"
    /\ ~FloatLe(qf.val, RZero)
    /\ unit \in ALLOWED_UNITS

\* ai_text.py lines 154-172: what one element adds to out
ValidatedItem(it) ==
    IF it.dict /\ LineChecks(it.key, FloatOf(it.qty), norm_unit(it.unit))
    THEN <<BomLine(it.key, FloatOf(it.qty).val, norm_unit(it.unit))>>
    ELSE <<>>

RECURSIVE ValidatedItems(_)
ValidatedItems(items) ==
    IF items = <<>> THEN <<>>
    ELSE ValidatedItem(Head(items)) \o ValidatedItems(Tail(items))

\* the value under "lines" of a reply: a list of elements, or no list
JList(items) == [list |-> TRUE, items |-> items]
NoList == [list |-> FALSE, items |-> <<>>]

\* _validate_lines, ai_text.py lines 149-173
validate_lines(raw) == IF ~raw.list THEN <<>> ELSE ValidatedItems(raw.items)

\* float arithmetic that carries NaN
FloatMul(a, b) == IF a = NotANumber \/ b = NotANumber THEN NotANumber ELSE RMul(a, b)
FloatAdd(a, b) == IF a = NotANumber \/ b = NotANumber THEN NotANumber ELSE RAdd(a, b)
FloatRound2(x) == IF x = NotANumber THEN NotANumber ELSE Round2(x)

\* _lookup_price, app.py lines 379-385: None when the table has no price
CementAlternatives == <<"cement_bag", "cement_bag_eco", "cement_bag_premium">>

lookup_price(key, prices) ==
    IF key = "cement_bag"
    THEN IF \E i \in 1..3 : CementAlternatives[i] \in DOMAIN prices
         THEN prices[CementAlternatives[SetMin({i \in 1..3 :
                                                 CementAlternatives[i] \in DOMAIN prices})]]
         ELSE None
    ELSE IF key \in DOMAIN prices THEN prices[key] ELSE None

\* a line of the estimate; its name is pretty_name(key), with " - UNPRICED"
\* after it when priced is FALSE, and is kept here as the key it is made of
PricedLine(key, priced, qty, unit, unit_price, total) ==
    [key |-> key, priced |-> priced, qty |-> qty, unit |-> unit,
     unit_price |-> unit_price, total |-> total]

Estimate(lines, total) == [lines |-> lines, total |-> total]

\* app.py lines 390-397: the line made for an allowed key with the price up
PricedLineOf(it, up) ==
    IF up = None THEN PricedLine(it.key, FALSE, it.qty, it.unit, RZero, RZero)
    ELSE PricedLine(it.key, TRUE, FloatRound2(it.qty), it.unit, Round2(up),
                    FloatRound2(FloatMul(it.qty, up)))

\* app.py line 395: total += line_total
TotalWith(total, it, up) == IF up = None THEN total ELSE FloatAdd(total, FloatMul(it.qty, up))

\* the loop of price_bom_lines, app.py lines 387-397
RECURSIVE PriceLoop(_, _, _)
PriceLoop(lines, prices, est) ==
    IF lines = <<>> THEN est
    ELSE IF Head(lines).key \notin ALLOWED_KEYS THEN PriceLoop(Tail(lines), prices, est)
    ELSE PriceLoop(Tail(lines), prices,
                   Estimate(Append(est.lines,
                                   PricedLineOf(Head(lines), lookup_price(Head(lines).key, prices))),
                            TotalWith(est.total, Head(lines),
                                      lookup_price(Head(lines).key, prices))))

\* price_bom_lines, app.py lines 375-398
PriceLoopTotal(est) == Estimate(est.lines, FloatRound2(est.total))

price_bom_lines(lines, prices) == PriceLoopTotal(PriceLoop(lines, prices, Estimate(<<>>, RZero)))

\* s.split(","), from the position i on, of the piece that began at b
RECURSIVE SplitAt(_, _, _)
SplitAt(s, b, i) ==
    IF i > Len(s) THEN <<SubSeq(s, b, Len(s))>>
    ELSE IF Ch(s, i) = "," THEN <<SubSeq(s, b, i - 1)>> \o SplitAt(s, i + 1, i + 1)
    ELSE SplitAt(s, b, i + 1)

\* ai_text.py line 65: [m.strip() for m in pieces if m.strip()]
RECURSIVE StrippedNonEmpty(_)
StrippedNonEmpty(pieces) ==
    IF pieces = <<>> THEN <<>>
    ELSE (IF Strip(Head(pieces)) = "" THEN <<>> ELSE <<Strip(Head(pieces))>>)
         \o StrippedNonEmpty(Tail(pieces))

SeqRange(s) == {s[i] : i \in 1..Len(s)}

\* ai_text.py lines 75-79: the non-empty names, once each, in order
RECURSIVE Deduplicated(_, _)
Deduplicated(ms, sequence) ==
    IF ms = <<>> THEN sequence
    ELSE Deduplicated(Tail(ms),
                      IF Head(ms) # "" /\ Head(ms) \notin SeqRange(sequence)
                      THEN Append(sequence, Head(ms)) ELSE sequence)

\* lines 67-72: the candidates are the same for "text" and "vision"
DefaultCandidates == <<"gpt-4o-mini", "gpt-4o">>

\* _get_model_sequence without the de-duplication of lines 75-79
get_model_sequence_NoDedup(primary, fallbacks_env) ==
    <<primary>> \o (IF Strip(fallbacks_env) # ""
                    THEN StrippedNonEmpty(SplitAt(Strip(fallbacks_env), 1, 1))
                    ELSE DefaultCandidates)

\* _get_model_sequence, ai_text.py lines 56-80, for the values of OPENAI_MODEL
\* (MODEL when unset) and OPENAI_MODEL_FALLBACKS ("" when unset)
get_model_sequence(primary, fallbacks_env) ==
    Deduplicated(<<primary>> \o (IF Strip(fallbacks_env) # ""
                                 THEN StrippedNonEmpty(SplitAt(Strip(fallbacks_env), 1, 1))
                                 ELSE DefaultCandidates),
                 <<>>)

\* _chat_completion_with_fallback, ai_text.py lines 83-112, when the models of
\* failing fail: the first model that answers, or the exception raised
Answering(sequence, failing) == {i \in 1..Len(sequence) : sequence[i] \notin failing}

chat_completion_with_fallback(sequence, failing) ==
    IF Answering(sequence, failing) = {} THEN [raised |-> TRUE, model |-> ""]
    ELSE [raised |-> FALSE, model |-> sequence[SetMin(Answering(sequence, failing))]]

\* what the model answered, as json.loads and the entry points see it:
\* content is "none" (no text), "text" (text that is no JSON), "array" (JSON
\* that is no object) or "object"; text is the stripped content; of an object,
\* lines is the value under "lines" or under "expenses", strings says that
\* every value read with .strip() is a str or missing, tax and total are the
\* values under "tax" and "total"
Reply(content, text, lines, strings, tax, total) ==
    [content |-> content, text |-> text, lines |-> lines, strings |-> strings,
     tax |-> tax, total |-> total]

\* what an entry point returns: {} when empty, else the dict with the
\* validated lines (and tax and total where float() takes them), or the text
\* of expand_steps_with_ai; raised when it returns nothing and raises
AiResult(empty, lines, text, tax, total) ==
    [raised |-> FALSE, empty |-> empty, lines |-> lines, text |-> text,
     tax |-> tax, total |-> total]

AiEmpty == AiResult(TRUE, <<>>, "", None, None)
AiRaised == [AiEmpty EXCEPT !.raised = TRUE]
AiText(text) == AiResult(FALSE, <<>>, text, None, None)

\* app.py lines 1691 and 1751: isinstance(ai_bom.get("lines"), list)
HasLines(result) == ~result.raised /\ ~result.empty

\* ai_text.py lines 227-231 inside the try of lines 216-233: json.loads and
\* data.get raise unless the content is a JSON object
BomOfReply(reply) ==
    IF reply.content = "object"
    THEN AiResult(FALSE, validate_lines(reply.lines), "", None, None)
    ELSE AiEmpty

BomTry(done, reply) == IF done.raised THEN AiEmpty ELSE BomOfReply(reply)

\* the same without the except of lines 231-233
BomNoExcept(done, reply) ==
    IF done.raised \/ reply.content # "object" THEN AiRaised ELSE BomOfReply(reply)

propose_bom_with_ai_NoExcept(client, sequence, failing, reply) ==
    IF ~client THEN AiEmpty
    ELSE BomNoExcept(chat_completion_with_fallback(sequence, failing), reply)

\* propose_bom_with_ai, ai_text.py lines 175-233; client is FALSE when
\* _make_client returned None
propose_bom_with_ai(client, sequence, failing, reply) ==
    IF ~client THEN AiEmpty
    ELSE BomTry(chat_completion_with_fallback(sequence, failing), reply)

\* propose_bom_from_vision, ai_text.py lines 329-405: the files only make the
\* content blocks of the request (a file that cannot be read is left out)
propose_bom_from_vision(client, sequence, failing, reply) ==
    IF ~client THEN AiEmpty
    ELSE BomTry(chat_completion_with_fallback(sequence, failing), reply)

\* ai_text.py lines 264-269: text or default_text
StepsTry(done, reply, default_text) ==
    IF done.raised \/ reply.text = "" THEN AiText(default_text) ELSE AiText(reply.text)

\* expand_steps_with_ai, ai_text.py lines 235-272
expand_steps_with_ai(client, sequence, failing, reply, default_text) ==
    IF ~client THEN AiText(default_text)
    ELSE StepsTry(chat_completion_with_fallback(sequence, failing), reply, default_text)

\* float(data.get(name)) in a try: the key is left out on TypeError, ValueError
OptionalFloat(f) == IF f.tag = "val" THEN f.val ELSE None

\* _validate_purchase_lines of the value under "lines"
PurchaseLinesOf(raw) == IF ~raw.list THEN <<>> ELSE validate_purchase_lines(raw.items)

\* ai_text.py lines 490-507 and 559-576: .strip() of a value that is no str
\* raises inside the try
PurchaseOfReply(reply) ==
    IF reply.content = "object" /\ reply.strings
    THEN AiResult(FALSE, PurchaseLinesOf(reply.lines), "",
                  OptionalFloat(FloatOf(reply.tax)), OptionalFloat(FloatOf(reply.total)))
    ELSE AiEmpty

PurchaseTry(done, reply) == IF done.raised THEN AiEmpty ELSE PurchaseOfReply(reply)

\* propose_purchase_from_text, ai_text.py lines 459-510
propose_purchase_from_text(client, sequence, failing, reply) ==
    IF ~client THEN AiEmpty
    ELSE PurchaseTry(chat_completion_with_fallback(sequence, failing), reply)

\* propose_invoice_from_vision, ai_text.py lines 513-579
propose_invoice_from_vision(client, sequence, failing, reply) ==
    IF ~client THEN AiEmpty
    ELSE PurchaseTry(chat_completion_with_fallback(sequence, failing), reply)

\* one element of the list under "expenses": a dict, or something else
ExpenseItem(category, description, amount) ==
    [dict |-> TRUE, category |-> category, description |-> description, amount |-> amount]

NoExpenseDict == [dict |-> FALSE, category |-> JNull, description |-> JNull, amount |-> JNull]

\* (x or "").strip() raises AttributeError on a number that is not 0
StripRaises(x) == x.json = "number" /\ x.num # RZero
OrEmptyStripped(x) == IF x.json = "string" THEN Strip(x.text) ELSE ""

\* ai_text.py lines 595-598: float(amount or 0), 0.0 when float() raises
Falsy(x) == x.json = "null" \/ (x.json = "number" /\ x.num = RZero)
                            \/ (x.json = "string" /\ x.text = "")

AmountOf(x) == IF Falsy(x) \/ FloatOf(x).tag # "val" THEN RZero ELSE FloatOf(x).val

ExpenseKept(it) ==
    /\ Lower(OrEmptyStripped(it.category)) # ""
    /\ ~FloatLe(AmountOf(it.amount), RZero)

ExpenseLine(it) ==
    [category |-> Lower(OrEmptyStripped(it.category)),
     description |-> OrEmptyStripped(it.description),
     amount |-> FloatRound2(AmountOf(it.amount))]

\* the loop of _validate_expenses, ai_text.py lines 590-606: the list it
\* returns, or that .strip() raised
RECURSIVE ExpenseLoop(_, _)
ExpenseLoop(items, out) ==
    IF items = <<>> THEN [raised |-> FALSE, out |-> out]
    ELSE IF ~Head(items).dict THEN ExpenseLoop(Tail(items), out)
    ELSE IF StripRaises(Head(items).category) \/ StripRaises(Head(items).description)
    THEN [raised |-> TRUE, out |-> out]
    ELSE ExpenseLoop(Tail(items),
                     IF ExpenseKept(Head(items)) THEN Append(out, ExpenseLine(Head(items)))
                     ELSE out)

\* _validate_expenses, ai_text.py lines 586-607
validate_expenses(raw) ==
    IF ~raw.list THEN [raised |-> FALSE, out |-> <<>>] ELSE ExpenseLoop(raw.items, <<>>)

\* ai_text.py lines 630-636 and 676-682 inside their try
ExpensesOfValidated(reply, v) ==
    IF v.raised \/ ~reply.strings THEN AiEmpty ELSE AiResult(FALSE, v.out, "", None, None)

ExpensesOfReply(reply) ==
    IF reply.content = "object" THEN ExpensesOfValidated(reply, validate_expenses(reply.lines))
    ELSE AiEmpty

ExpensesTry(done, reply) == IF done.raised THEN AiEmpty ELSE ExpensesOfReply(reply)

\* propose_expenses_from_text, ai_text.py lines 609-639
propose_expenses_from_text(client, sequence, failing, reply) ==
    IF ~client THEN AiEmpty
    ELSE ExpensesTry(chat_completion_with_fallback(sequence, failing), reply)

\* propose_expenses_from_vision, ai_text.py lines 642-685
propose_expenses_from_vision(client, sequence, failing, reply) ==
    IF ~client THEN AiEmpty
    ELSE ExpensesTry(chat_completion_with_fallback(sequence, failing), reply)

\* merge_prices, loaders.py lines 282-289: one table d into out; a table is a
\* function from its keys, None for a value that is None
MergeInto(out, d) ==
    [k \in DOMAIN out \cup {j \in DOMAIN d : d[j] # None} |->
        IF k \notin DOMAIN out THEN d[k]
        ELSE IF k \in DOMAIN d /\ d[k] # None THEN RMin(out[k], d[k])
        ELSE out[k]]

RECURSIVE MergeLoop(_, _)
MergeLoop(dicts, out) ==
    IF dicts = <<>> THEN out ELSE MergeLoop(Tail(dicts), MergeInto(out, Head(dicts)))

\* a merge in which the table merged last wins
merge_prices_LastWins(dicts) ==
    [k \in UNION {{j \in DOMAIN dicts[i] : dicts[i][j] # None} : i \in 1..Len(dicts)} |->
        LET last == CHOOSE i \in 1..Len(dicts) :
                        /\ k \in DOMAIN dicts[i] /\ dicts[i][k] # None
                        /\ \A j \in (i + 1)..Len(dicts) :
                               ~(k \in DOMAIN dicts[j] /\ dicts[j][k] # None)
        IN  dicts[last][k]]

merge_prices(dicts) == MergeLoop(dicts, EmptyPrices)

VARIABLES
    loader,       \* the loader that runs: "aggregates", "steel" or "building"
    csvRows,      \* the rows read_csv_rows returned
    rowIdx,       \* the row the loop is at
    prices,       \* the price table being built (out / prices)
    steelRows,    \* the rows list of load_steel
    cementGrade,  \* the CEMENT_GRADE environment variable, stripped and lowered
    loadPc        \* "rows", then "done" (returned) or "raised"

loadVars == <<loader, csvRows, rowIdx, prices, steelRows, cementGrade, loadPc>>

VARIABLES
    floatIn,      \* the text handed to to_float (a FloatIn record)
    floatOut      \* FPending, then what to_float returned or that it raised

floatVars == <<floatIn, floatOut>>

VARIABLES
    envBaseFee,    \* the environment variable DELIVERY_BASE_FEE ("" when unset)
    envPerKm,      \* the environment variable DELIVERY_PER_KM
    envFreeRadius, \* the environment variable FREE_RADIUS_KM
    feeOp,         \* the last fee computation: "none", "compute" or "quote"
    feeKm,         \* the distance it was made for
    feeOut         \* what it returned

feeVars == <<envBaseFee, envPerKm, envFreeRadius, feeOp, feeKm, feeOut>>

VARIABLES
    suppliers,    \* the Supplier table: the names, by id
    invoices,     \* the PurchaseInvoice table: the rows, by id
    lineItems,    \* the PurchaseLineItem table: a set of rows
    lastLineId,   \* the last id the PurchaseLineItem table gave
    receipts,     \* the SalesReceipt table: the rows, by id
    receiptLines, \* the SalesReceiptLine table: the rows, in the order added
    validated,    \* what _validate_purchase_lines returned last
    staffResp,    \* the last response of a staff endpoint
    staffCalls    \* the requests made so far

staffVars == <<suppliers, invoices, lineItems, lastLineId, receipts, receiptLines,
               validated, staffResp, staffCalls>>

VARIABLES
    orders,          \* the Order table: the rows, in the order committed
    ordersBefore,    \* the Order table when the last request came in
    userLocated,     \* current_user has a lat and a lng
    userDistanceKm,  \* current_user.distance_km (None when not set)
    userDeliveryFee, \* current_user.delivery_fee (None when not set)
    wipayKey,        \* WIPAY_API_KEY is set
    shopResp,        \* the last response of /checkout or /payment
    shopCalls        \* the requests made so far

shopVars == <<orders, ordersBefore, userLocated, userDistanceKm, userDeliveryFee,
              wipayKey, shopResp, shopCalls>>

VARIABLES
    openaiKey,       \* OPENAI_API_KEY is set
    envModel,        \* the environment variable OPENAI_MODEL (Unset when not set)
    envFallbacks,    \* the environment variable OPENAI_MODEL_FALLBACKS ("" when unset)
    aiCall,          \* the last call of an AI entry point and what the model did
    aiOut            \* what that call returned

aiVars == <<openaiKey, envModel, envFallbacks, aiCall, aiOut>>

VARIABLES
    baImportError,   \* _BA_IMPORT_ERROR is set (an import of app.py failed)
    priceFiles,      \* the rows of the aggregates, steel and building CSV files
    PRICES,          \* the global price table
    META,            \* the global metadata of the price files
    PRICES_ERROR,    \* the global error text of the price load (NoError for None)
    advisePc,        \* "import" until _safe_load_prices ran, then "serving"
    adviseResp       \* the last response of /api/chat or /api/bom/extract

adviseVars == <<baImportError, priceFiles, PRICES, META, PRICES_ERROR, advisePc,
                adviseResp>>

VARIABLES
    userKm           \* the haversine distance of current_user's lat and lng from the base

userVars == <<userKm>>

VARIABLES
    envBagsPerYd3,   \* the environment variable BAGS_PER_YD3 ("" when unset)
    envBagCost,      \* the environment variable BAG_COST_PER_BAG ("" when unset)
    purchaseRows,    \* the join of PurchaseInvoice and PurchaseLineItem
    salesRows,       \* the join of SalesReceipt and SalesReceiptLine
    expenseRows,     \* the Expense table
    reportResp       \* what the last report request rendered

reportVars == <<envBagsPerYd3, envBagCost, purchaseRows, salesRows, expenseRows,
                reportResp>>

VARIABLES
    mergeDicts,      \* the price tables handed to merge_prices
    mergeOut         \* MergePending, then the table merge_prices returned

mergeVars == <<mergeDicts, mergeOut>>

VARIABLES
    expenseResp,       \* the last response of POST /api/staff/expenses
    expenseCalls,      \* the requests made to it so far
    expensesValidated  \* what _validate_expenses returned last

expenseVars == <<expenseResp, expenseCalls, expensesValidated>>

VARIABLES
    uploadClock,     \* int(time.time() * 1000), the clock in milliseconds
    uploadFiles,     \* the filenames under "file" of each request to /api/uploads
    uploadAt,        \* the file the loop of each request is at (0 once it returned)
    uploadSaved,     \* the files saved so far, each with the name it was saved under
    uploadDisk,      \* the upload folder: the file stored under each name
    uploadResp       \* the status each request returned (0 for none yet)

uploadVars == <<uploadClock, uploadFiles, uploadAt, uploadSaved, uploadDisk, uploadResp>>

VARIABLES
    fbKind,          \* model_kind of the call of _chat_completion_with_fallback
    fbSequence,      \* the list the for loop iterates over
    fbPc,            \* "start", "loop", "returned" or "raised" ("idle": no call)
    fbCalls,         \* the calls of client.chat.completions.create: the model, and
                     \* whether the call returned (ok) or raised
    fbLastErr,       \* last_err: the model whose error it is ("" for None)
    fbOut            \* the model whose response was returned, or the error raised

fallbackVars == <<fbKind, fbSequence, fbPc, fbCalls, fbLastErr, fbOut>>

VARIABLES
    authUsers,       \* the User table: the rows, a user's id being its position
    authSession,     \* the id of current_user (0 when nobody is logged in)
    authResp         \* the last response: the route, the status, and the user a
                     \* staff-only handler ran for (0 when none ran)

authVars == <<authUsers, authSession, authResp>>

\* the parts of the program modelled last
lastVars == <<expenseVars, uploadVars, fallbackVars, authVars>>

\* the parts of the program modelled after the first five
moreVars == <<aiVars, adviseVars, userVars, reportVars, mergeVars, lastVars>>

vars == <<loadVars, floatVars, feeVars, staffVars, shopVars, moreVars>>

\* what a step of one part of the program leaves alone
notLoad  == <<floatVars, feeVars, staffVars, shopVars, moreVars>>
notFloat == <<loadVars, feeVars, staffVars, shopVars, moreVars>>
notFee   == <<loadVars, floatVars, staffVars, shopVars, moreVars>>
notStaff == <<loadVars, floatVars, feeVars, shopVars, moreVars>>
notShop  == <<loadVars, floatVars, feeVars, staffVars, moreVars>>
notUser  == <<loadVars, floatVars, feeVars, staffVars, aiVars, adviseVars, reportVars,
              mergeVars, lastVars>>
firstVars == <<loadVars, floatVars, feeVars, staffVars, shopVars>>
notReport == <<firstVars, aiVars, adviseVars, userVars, mergeVars, lastVars>>
notMerge == <<firstVars, aiVars, adviseVars, userVars, reportVars, lastVars>>

\* an environment variable that is not set
Unset == "<unset>"

\* PRICES_ERROR is None
NoError == "<None>"

NoFiles == [aggregates |-> <<>>, steel |-> <<>>, building |-> <<>>]

NoAiCall ==
    [op |-> "none", failing |-> {}, reply |-> Reply("none", "", NoList, TRUE, JNull, JNull),
     default_text |-> "", table |-> EmptyPrices]

\* the entry point has not returned yet
AiPending == AiResult(FALSE, <<>>, "<pending>", None, None)

NoAdviseResponse ==
    [op |-> "none", code |-> 0, ok |-> FALSE, estimate |-> [lines |-> <<>>, total |-> None],
     assistant |-> "", error |-> "", raised |-> FALSE, detail |-> FALSE, trace |-> FALSE]

\* no AI entry point was called
AiIdle ==
    /\ openaiKey = FALSE
    /\ envModel = Unset
    /\ envFallbacks = ""
    /\ aiCall = NoAiCall
    /\ aiOut = AiEmpty

\* the price files are not read and no estimate is asked for
AdviseIdle ==
    /\ baImportError = FALSE
    /\ priceFiles = NoFiles
    /\ PRICES = EmptyPrices
    /\ META = EmptyPrices
    /\ PRICES_ERROR = NoError
    /\ advisePc = "serving"
    /\ adviseResp = NoAdviseResponse

\* the user lives where they signed up
UserIdle == userKm = UserKm

\* what a report request hands its template: the rows, the grand total, the
\* rows by customer, the operating expenses and net profit, and the dict
\* _compute_weighted_avg_cost returned
Report(op, from_date, to_date, rows, grand, by_customer, opex_total, avg_cost) ==
    [op |-> op, from_date |-> from_date, to_date |-> to_date, rows |-> rows,
     grand |-> grand, by_customer |-> by_customer, opex_total |-> opex_total,
     net_profit |-> RSub(grand.gp, opex_total), avg_cost |-> avg_cost]

NoGrand == [qty_yd3 |-> RZero, revenue |-> RZero, cogs |-> RZero, gp |-> RZero,
            margin |-> RZero]

NoReport == Report("none", "", "", <<>>, NoGrand, <<>>, RZero, <<>>)

ReportIdle ==
    /\ envBagsPerYd3 = ""
    /\ envBagCost = ""
    /\ purchaseRows = <<>>
    /\ salesRows = <<>>
    /\ expenseRows = <<>>
    /\ reportResp = NoReport

\* merge_prices was not called
MergePending == [called |-> FALSE, table |-> EmptyPrices]

MergeIdle == mergeDicts = <<>> /\ mergeOut = MergePending

NoExpenseResponse == [code |-> 0, ok |-> FALSE, error |-> ""]

NotValidated == [raised |-> FALSE, out |-> <<>>]

ExpenseIdle ==
    /\ expenseResp = NoExpenseResponse
    /\ expenseCalls = 0
    /\ expensesValidated = NotValidated

\* the requests to /api/uploads that run at the same time
UploadRequests == {1, 2}

NoDisk == [n \in {} |-> <<0, 0>>]

UploadIdle ==
    /\ uploadClock = 0
    /\ uploadFiles = [r \in UploadRequests |-> <<>>]
    /\ uploadAt = [r \in UploadRequests |-> 0]
    /\ uploadSaved = <<>>
    /\ uploadDisk = NoDisk
    /\ uploadResp = [r \in UploadRequests |-> 0]

\* _chat_completion_with_fallback is not called
FallbackIdle ==
    /\ fbKind = "text"
    /\ fbSequence = <<>>
    /\ fbPc = "idle"
    /\ fbCalls = <<>>
    /\ fbLastErr = ""
    /\ fbOut = ""

\* a response of the routes /signup, /login, /logout and of a staff route
AuthResponse(op, code, served) == [op |-> op, code |-> code, served |-> served]

\* nobody has an account and no request was made
AuthIdle ==
    /\ authUsers = <<>>
    /\ authSession = 0
    /\ authResp = AuthResponse("none", 0, 0)

LastIdle == ExpenseIdle /\ UploadIdle /\ FallbackIdle /\ AuthIdle

MoreIdle == AiIdle /\ AdviseIdle /\ UserIdle /\ ReportIdle /\ MergeIdle /\ LastIdle

\* the parts modelled after the first five at rest, but for the last
EarlierIdle == AiIdle /\ AdviseIdle /\ UserIdle /\ ReportIdle /\ MergeIdle
\* all but the last parts
earlierVars == <<firstVars, aiVars, adviseVars, userVars, reportVars, mergeVars>>

\* no loader runs
LoadIdle ==
    /\ loader = "none"
    /\ csvRows = <<>>
    /\ cementGrade = ""
    /\ rowIdx = 1
    /\ prices = EmptyPrices
    /\ steelRows = <<>>
    /\ loadPc = "done"

\* to_float is not being tried
FloatIdle == floatIn = NoFloatIn /\ floatOut = FPending

\* no fee is computed
FeeIdle ==
    /\ envBaseFee = ""
    /\ envPerKm = ""
    /\ envFreeRadius = ""
    /\ feeOp = "none"
    /\ feeKm = RZero
    /\ feeOut = NoFee

NoShopResponse == [op |-> "none", code |-> 0, error |-> FALSE]

\* no order and no shop request
ShopIdle ==
    /\ orders = <<>>
    /\ ordersBefore = <<>>
    /\ userLocated = FALSE
    /\ userDistanceKm = None
    /\ userDeliveryFee = None
    /\ wipayKey = FALSE
    /\ shopResp = NoShopResponse
    /\ shopCalls = 0

\* the tables are empty and no staff request was made
StaffIdle ==
    /\ suppliers = <<>>
    /\ invoices = <<>>
    /\ lineItems = {}
    /\ lastLineId = 0
    /\ receipts = <<>>
    /\ receiptLines = <<>>
    /\ validated = <<>>
    /\ staffResp = NoResponse
    /\ staffCalls = 0

\* the first five parts at rest
FirstIdle == LoadIdle /\ FloatIdle /\ FeeIdle /\ StaffIdle /\ ShopIdle

InitLoad ==
    /\ MoreIdle
    /\ FloatIdle
    /\ FeeIdle
    /\ StaffIdle
    /\ ShopIdle
    /\ loader \in {"aggregates", "steel", "building"}
    /\ csvRows \in FilesOf(PoolOf(loader))
    /\ cementGrade \in (IF loader = "building" THEN CementGrades ELSE {""})
    /\ rowIdx = 1
    /\ prices = EmptyPrices
    /\ steelRows = <<>>
    /\ loadPc = "rows"

AtRow(l) == loader = l /\ loadPc = "rows" /\ rowIdx <= Len(csvRows)
AtEnd(l) == loader = l /\ loadPc = "rows" /\ rowIdx > Len(csvRows)

\* the loop goes on to the next row unless to_float raised
RowDone(e) ==
    /\ loadPc' = IF e.status = "raise" THEN "raised" ELSE "rows"
    /\ rowIdx' = IF e.status = "raise" THEN rowIdx ELSE rowIdx + 1

\* line 120: out[k] = v
AggStore(e) ==
    /\ RowDone(e)
    /\ prices' = IF e.status = "ok" THEN StoreInto(prices, e.key, e.price) ELSE prices

\* lines 160, 187, 218-267: prices[key] = min(prices.get(key, 1e18), value)
MinStore(e) ==
    /\ RowDone(e)
    /\ prices' = IF e.status = "ok" /\ e.key # "" THEN MinInto(prices, e.key, e.price)
                 ELSE prices

\* one turn of the loop of load_aggregates (lines 116-120)
LoadAggregatesRow ==
    /\ AtRow("aggregates")
    /\ AggStore(AggEntry(csvRows[rowIdx]))
    /\ UNCHANGED <<loader, csvRows, steelRows, cementGrade, notLoad>>

SteelStore(r, p, e) ==
    /\ MinStore(e)
    /\ steelRows' = IF e.status = "ok" THEN Append(steelRows, SteelMeta(r, p, e))
                    ELSE steelRows

SteelRowWith(r, p) == SteelStore(r, p, SteelEntryOf(r, p))

\* one turn of the loop of load_steel (lines 133-193)
LoadSteelRow ==
    /\ AtRow("steel")
    /\ SteelRowWith(csvRows[rowIdx], PriceOf(csvRows[rowIdx]))
    /\ UNCHANGED <<loader, csvRows, cementGrade, notLoad>>

\* one turn of the loop of load_building (lines 209-268)
LoadBuildingRow ==
    /\ AtRow("building")
    /\ MinStore(BuildingEntry(csvRows[rowIdx]))
    /\ UNCHANGED <<loader, csvRows, steelRows, cementGrade, notLoad>>

\* return out (line 121), return prices, rows (line 195)
LoadReturn ==
    /\ AtEnd("aggregates") \/ AtEnd("steel")
    /\ loadPc' = "done"
    /\ UNCHANGED <<loader, csvRows, rowIdx, prices, steelRows, cementGrade, notLoad>>

\* the end of load_building: the cement preference, then return (lines 270-280)
LoadBuildingReturn ==
    /\ AtEnd("building")
    /\ prices' = CementPreference(prices, cementGrade)
    /\ loadPc' = "done"
    /\ UNCHANGED <<loader, csvRows, rowIdx, steelRows, cementGrade, notLoad>>

NextLoad ==
    \/ LoadAggregatesRow
    \/ LoadSteelRow
    \/ LoadBuildingRow
    \/ LoadReturn
    \/ LoadBuildingReturn

SpecLoad == InitLoad /\ [][NextLoad]_vars

(***************************************************************************)
(* to_float on its own: one call on a text of FloatInputs                  *)
(***************************************************************************)
InitFloat ==
    /\ MoreIdle
    /\ LoadIdle
    /\ FeeIdle
    /\ StaffIdle
    /\ ShopIdle
    /\ floatIn \in FloatInputs
    /\ floatOut = FPending

\* the call to_float(floatIn.text), lines 17-27
ToFloat ==
    /\ floatOut = FPending
    /\ floatOut' = to_float(floatIn.text)
    /\ UNCHANGED <<floatIn, notFloat>>

NextFloat == ToFloat

SpecFloat == InitFloat /\ [][NextFloat]_vars

(***************************************************************************)
(* The delivery fee: the configuration is read once, when app.py is loaded *)
(***************************************************************************)
\* lines 74-76
BASE_FEE       == EnvFloat(envBaseFee, "0")
PER_KM         == EnvFloat(envPerKm, "0")
FREE_RADIUS_KM == EnvFloat(envFreeRadius, "0")
\* lines 138-139
DELIVERY_BASE_FEE == EnvFloat(envBaseFee, "50")
DELIVERY_PER_KM   == EnvFloat(envPerKm, "5")

InitFee ==
    /\ MoreIdle
    /\ LoadIdle
    /\ FloatIdle
    /\ StaffIdle
    /\ ShopIdle
    /\ envBaseFee \in EnvFees
    /\ envPerKm \in EnvRates
    /\ envFreeRadius \in EnvRadii
    /\ feeOp = "none"
    /\ feeKm = RZero
    /\ feeOut = NoFee

\* a call compute_delivery_fee_km(dist_km) with the defaults of its signature
\* (lines 116, 1776, 1796)
ComputeDeliveryFee ==
    \E km \in Kilometers :
        /\ feeOp' = "compute"
        /\ feeKm' = km
        /\ feeOut' = FeeResponse(200,
                         compute_delivery_fee_km(km, BASE_FEE, PER_KM, FREE_RADIUS_KM), km)
        /\ UNCHANGED <<envBaseFee, envPerKm, envFreeRadius, notFee>>

\* POST /api/delivery-quote with a body without usable lat/lng (lines 702-706)
DeliveryQuoteInvalid ==
    /\ feeOp' = "quote"
    /\ feeKm' = RZero
    /\ feeOut' = FeeResponse(400, RZero, RZero)
    /\ UNCHANGED <<envBaseFee, envPerKm, envFreeRadius, notFee>>

\* POST /api/delivery-quote when distance_km_from_base returns None (lines 708-710)
DeliveryQuoteNoDistance ==
    /\ feeOp' = "quote"
    /\ feeKm' = RZero
    /\ feeOut' = FeeResponse(502, RZero, RZero)
    /\ UNCHANGED <<envBaseFee, envPerKm, envFreeRadius, notFee>>

\* POST /api/delivery-quote when the distance is km (lines 708-713)
DeliveryQuote ==
    \E km \in Kilometers :
        /\ feeOp' = "quote"
        /\ feeKm' = km
        /\ feeOut' = QuoteOk(DELIVERY_BASE_FEE, DELIVERY_PER_KM, km)
        /\ UNCHANGED <<envBaseFee, envPerKm, envFreeRadius, notFee>>

NextFee ==
    \/ ComputeDeliveryFee
    \/ DeliveryQuoteInvalid
    \/ DeliveryQuoteNoDistance
    \/ DeliveryQuote

SpecFee == InitFee /\ [][NextFee]_vars

(***************************************************************************)
(* The staff endpoints: each action is one request, from the body to the   *)
(* commit or the error response                                            *)
(***************************************************************************)
InitStaff ==
    /\ MoreIdle
    /\ LoadIdle
    /\ FloatIdle
    /\ FeeIdle
    /\ StaffIdle
    /\ ShopIdle

\* the response of a request that wrote nothing
StaffFails(op, code) ==
    /\ staffResp' = [op |-> op, code |-> code, id |-> 0]
    /\ staffCalls' = staffCalls + 1
    /\ UNCHANGED <<suppliers, invoices, lineItems, lastLineId, receipts, receiptLines,
                   validated, notStaff>>

\* POST /api/staff/purchases with no lines (lines 1306-1307)
SavePurchaseNoLines ==
    \E body \in PBodies :
        /\ staffCalls < MaxCalls
        /\ body.lines = <<>>
        /\ StaffFails("purchase", 400)

\* POST /api/staff/purchases with the id of no invoice (lines 1325-1328); the
\* supplier the handler added is not committed
SavePurchaseNotFound ==
    \E body \in PBodies :
        /\ staffCalls < MaxCalls
        /\ body.lines # <<>>
        /\ body.id # 0 /\ body.id > Len(invoices)
        /\ StaffFails("purchase", 404)

\* lines 1329-1429 with the supplier sup, the invoice inv_id and the loop's
\* result up
PurchaseWrite(body, sup, inv_id, up) ==
    /\ suppliers' = IF CreatesSupplier(body) THEN Append(suppliers, body.supplier_name)
                    ELSE suppliers
    /\ invoices' = IF body.id # 0
                   THEN [invoices EXCEPT ![inv_id] = InvoiceOf(body, sup, up)]
                   ELSE Append(invoices, InvoiceOf(body, sup, up))
    /\ lineItems' = IF body.id # 0 THEN DeleteRemoved(up.rows, inv_id, up.existing)
                    ELSE up.rows
    /\ lastLineId' = up.last
    /\ staffResp' = [op |-> "purchase", code |-> 200, id |-> inv_id]
    /\ staffCalls' = staffCalls + 1
    /\ UNCHANGED <<receipts, receiptLines, validated, notStaff>>

PurchaseCommit(body, inv_id) ==
    PurchaseWrite(body, SupplierOf(body, suppliers), inv_id,
                  UpsertLines(body.lines, inv_id, Upsert(lineItems, lastLineId, RZero, {})))

\* POST /api/staff/purchases that creates or updates an invoice (lines 1287-1429)
SavePurchase ==
    \E body \in PBodies :
        /\ staffCalls < MaxCalls
        /\ body.lines # <<>>
        /\ body.id = 0 \/ body.id <= Len(invoices)
        /\ PurchaseCommit(body, IF body.id # 0 THEN body.id ELSE Len(invoices) + 1)

\* POST /api/staff/receipts with no lines (lines 1824-1825)
CreateReceiptNoLines ==
    \E body \in RBodies :
        /\ staffCalls < MaxCalls
        /\ body.lines = <<>>
        /\ StaffFails("receipt", 400)

\* lines 1827-1864 for the receipt id and the rows of its lines
ReceiptWrite(body, id, rows) ==
    /\ receipts' = Append(receipts, SalesReceipt(id, body.customer_name, SumRows(rows)))
    /\ receiptLines' = receiptLines \o rows
    /\ staffResp' = [op |-> "receipt", code |-> 200, id |-> id]
    /\ staffCalls' = staffCalls + 1
    /\ UNCHANGED <<suppliers, invoices, lineItems, lastLineId, validated, notStaff>>

\* POST /api/staff/receipts (lines 1815-1864)
CreateReceipt ==
    \E body \in RBodies :
        /\ staffCalls < MaxCalls
        /\ body.lines # <<>>
        /\ ReceiptWrite(body, Len(receipts) + 1, ReceiptRows(body.lines, Len(receipts) + 1))

\* a call of _validate_purchase_lines (ai_text.py lines 490, 560)
ValidatePurchaseLines ==
    \E raw \in ListsOf(VLinePool) :
        /\ staffCalls < MaxCalls
        /\ validated' = validate_purchase_lines(raw)
        /\ staffCalls' = staffCalls + 1
        /\ UNCHANGED <<suppliers, invoices, lineItems, lastLineId, receipts,
                       receiptLines, staffResp, notStaff>>

NextStaff ==
    \/ SavePurchaseNoLines
    \/ SavePurchaseNotFound
    \/ SavePurchase
    \/ CreateReceiptNoLines
    \/ CreateReceipt
    \/ ValidatePurchaseLines

SpecStaff == InitStaff /\ [][NextStaff]_vars

(***************************************************************************)
(* Checkout and payment: each action is one request, from the body to the  *)
(* response.  Orders added to the session reach the table at the commit;   *)
(* a rollback drops the ones not yet committed.                            *)
(***************************************************************************)
InitShop ==
    /\ MoreIdle
    /\ LoadIdle
    /\ FloatIdle
    /\ StaffIdle
    /\ envBaseFee \in {"", "50"}
    /\ envPerKm = ""
    /\ envFreeRadius = ""
    /\ feeOp = "none"
    /\ feeKm = RZero
    /\ feeOut = NoFee
    /\ orders = <<>>
    /\ ordersBefore = <<>>
    /\ userLocated \in BOOLEAN
    /\ \E saved \in {None, RInt(20)} : userDistanceKm = saved /\ userDeliveryFee = saved
    /\ wipayKey \in BOOLEAN
    /\ shopResp = NoShopResponse
    /\ shopCalls = 0

\* ensure_delivery_computed without the test of lines 111-113
NeedsDelivery_Always == userLocated

\* lines 111-113 of ensure_delivery_computed
NeedsDelivery == userLocated /\ (userDistanceKm = None \/ userDeliveryFee = None)

\* current_user.delivery_fee and distance_km after ensure_delivery_computed
\* (lines 97-119)
EnsuredFee ==
    IF NeedsDelivery
    THEN compute_delivery_fee_km(userKm, BASE_FEE, PER_KM, FREE_RADIUS_KM)
    ELSE userDeliveryFee

EnsuredKm == IF NeedsDelivery THEN userKm ELSE userDistanceKm

\* the request is counted and the table it found remembered
ShopRequest ==
    /\ shopCalls < MaxCalls
    /\ shopCalls' = shopCalls + 1
    /\ ordersBefore' = orders

\* a response with no commit of orders: what was added is rolled back or lost
\* with the session
ShopReturns(op, code, error) ==
    /\ shopResp' = [op |-> op, code |-> code, error |-> error]
    /\ orders' = orders

\* db.session.commit(), then create_wipay_payment (lines 325-352): it raises
\* without a key or a payment url, and the handler answers failed
ShopCharges(op, added, gw, paid, failed) ==
    /\ orders' = orders \o added
    /\ shopResp' = IF wipayKey /\ gw = "url" THEN [op |-> op, code |-> paid, error |-> FALSE]
                   ELSE [op |-> op, code |-> failed, error |-> TRUE]

\* lines 1473-1504 once the loop is over
CheckoutAfterLoop(st, gw) ==
    IF st.raised THEN ShopReturns("checkout", 500, TRUE)
    ELSE IF ~RLt(RZero, st.total) THEN ShopReturns("checkout", 400, TRUE)
    ELSE ShopCharges("checkout", st.added, gw, 200, 500)

\* POST /checkout (lines 1458-1504)
Checkout ==
    \E cart \in ListsOf(CartPool), gw \in GatewayOutcomes :
        /\ ShopRequest
        /\ IF cart = <<>> THEN ShopReturns("checkout", 400, TRUE)
           ELSE CheckoutAfterLoop(CartLoop(cart, CartState(<<>>, RZero, FALSE)), gw)
        /\ UNCHANGED <<userLocated, userDistanceKm, userDeliveryFee, wipayKey, notShop>>

\* what every request to /payment starts with (lines 1516-1519)
EnsureDeliveryComputed ==
    /\ userDeliveryFee' = EnsuredFee
    /\ userDistanceKm' = EnsuredKm

\* GET /payment (lines 1524-1526)
PaymentPage ==
    /\ ShopRequest
    /\ EnsureDeliveryComputed
    /\ ShopReturns("payment", 200, FALSE)
    /\ UNCHANGED <<userLocated, wipayKey, notShop>>

\* lines 1563-1586 once the loop is over, st with the Delivery order
PaymentAfterLoop(st, gw) ==
    IF st.raised THEN ShopReturns("payment", 500, TRUE)
    ELSE IF ~RLt(RZero, st.total) THEN ShopReturns("payment", 400, TRUE)
    ELSE ShopCharges("payment", st.added, gw, 200, 500)

\* POST /payment with a JSON cart (lines 1532-1586)
PaymentJson ==
    \E cart \in ListsOf(CartPool), gw \in GatewayOutcomes :
        /\ ShopRequest
        /\ EnsureDeliveryComputed
        /\ IF cart = <<>> THEN ShopReturns("payment", 400, TRUE)
           ELSE PaymentAfterLoop(
                    WithDelivery(CartLoop(cart, CartState(<<>>, RZero, FALSE)), EnsuredFee),
                    gw)
        /\ UNCHANGED <<userLocated, wipayKey, notShop>>

\* POST /payment with the legacy form (lines 1589-1619): an error is flashed
\* on the payment page, a success redirects to WiPay
PaymentForm ==
    \E product_name \in {"", "sand"}, amount \in {RZero, RInt(25), NotANumber},
       gw \in GatewayOutcomes :
        /\ ShopRequest
        /\ EnsureDeliveryComputed
        /\ IF amount = NotANumber \/ product_name = "" \/ ~RLt(RZero, amount)
           THEN ShopReturns("payment", 200, TRUE)
           ELSE ShopCharges("payment",
                            WithDelivery(CartState(<<Order(product_name, amount)>>,
                                                   amount, FALSE), EnsuredFee).added,
                            gw, 302, 200)
        /\ UNCHANGED <<userLocated, wipayKey, notShop>>

NextShop ==
    \/ Checkout
    \/ PaymentPage
    \/ PaymentJson
    \/ PaymentForm

SpecShop == InitShop /\ [][NextShop]_vars

(***************************************************************************)
(* The loaders as functions of the file, for the properties that compare   *)
(* the table of a run with the rows of the file                            *)
(***************************************************************************)
\* what the loader l does with the row r
EntryFor(l, r) ==
    CASE l = "aggregates" -> AggEntry(r)
      [] l = "steel" -> SteelEntry(r)
      [] l = "building" -> BuildingEntry(r)

\* the write of one row into the table: line 120, or lines 160, 187, 218-267
StoreEntry(l, table, e) ==
    IF e.status # "ok" \/ e.key = "" THEN table
    ELSE IF l = "aggregates" THEN StoreInto(table, e.key, e.price)
    ELSE MinInto(table, e.key, e.price)

\* the loop of the loader l over rows, from table on
RECURSIVE LoadFold(_, _, _)
LoadFold(l, rows, table) ==
    IF rows = <<>> THEN table
    ELSE LoadFold(l, Tail(rows), StoreEntry(l, table, EntryFor(l, Head(rows))))

\* the table the loader l returns for the file rows
TableOf(l, rows, grade) ==
    IF l = "building" THEN CementPreference(LoadFold(l, rows, EmptyPrices), grade)
    ELSE LoadFold(l, rows, EmptyPrices)

\* the rows of the file whose entry is kept under the key K
RowsOf(K) ==
    {i \in 1..Len(csvRows) :
        EntryFor(loader, csvRows[i]).status = "ok" /\ EntryFor(loader, csvRows[i]).key = K}

\* the candidate price of the row i
Candidate(i) == EntryFor(loader, csvRows[i]).price

\* C1: in the table a loader returns, the price under every key K is the
\* minimum of the candidate prices of the rows of the file that resolve to K,
\* whatever the order of the rows (cement_bag is left out when CEMENT_GRADE
\* is set, which rewrites that key from another one)
C1_MinimumOfCandidates ==
    loadPc = "done" =>
        \A K \in DOMAIN prices :
            (RowsOf(K) # {} /\ ~(K = "cement_bag" /\ cementGrade # "")) =>
                /\ \E i \in RowsOf(K) : prices[K] = Candidate(i)
                /\ \A i \in RowsOf(K) : RLe(prices[K], Candidate(i))

\* the purlin names of the model with an implicit trailing dimension NxMxL
\* and no length unit, with L
ImplicitPurlins == ("Z Purlin 2x4x20" :> 20) @@ ("C Purlin 3x6x30" :> 30)

\* the purlin key and the price of those rows
ImplicitPurlinKey   == ("Z Purlin 2x4x20" :> "purlin_z_m") @@ ("C Purlin 3x6x30" :> "purlin_c_m")
ImplicitPurlinPrice == ("Z Purlin 2x4x20" :> 380) @@ ("C Purlin 3x6x30" :> 600)

\* C2: load_building reads the L of a purlin row named NxMxL (5 <= L <= 40, no
\* length unit) as feet and stores price / (L x 0.3048) under the purlin key:
\* "Z Purlin 2x4x20","380" gives purlin_z_m = 380 / (20 x 0.3048)
C2_ImplicitFeet ==
    (loadPc = "done" /\ loader = "building" /\ Len(csvRows) = 1
        /\ csvRows[1].name \in DOMAIN ImplicitPurlins) =>
            /\ ImplicitPurlinKey[csvRows[1].name] \in DOMAIN prices
            /\ prices[ImplicitPurlinKey[csvRows[1].name]] =
                   RDiv(RInt(ImplicitPurlinPrice[csvRows[1].name]),
                        RMul(RInt(ImplicitPurlins[csvRows[1].name]), Rat(3048, 10000)))

\* the rebar rows of the model priced per stick with no length in the name or
\* the columns, with the price
SticksNoLength ==
    ("Rebar 3/8 corr" :> 57) @@ ("REBAR 12MM MILD" :> 45) @@ ("Rebar corr" :> 66)

\* the rebar rows of the model whose name states a length in meters: <<price,
\* meters>>
SticksInMeters ==
    ("Rebar 1/2 corr 6m" :> <<60, 6>>) @@ ("Rebar 12mm mild 9m" :> <<90, 9>>)

\* C3: load_steel converts a rebar row priced per stick with no length in its
\* name or columns to price / (19 x 0.3048) per meter, and a rebar row whose
\* name states a length in meters to price / length ("Rebar 1/2 corr 6m"
\* priced P: P / 6)
C3_RebarPerMeter ==
    \A i \in 1..Len(steelRows) :
        /\ steelRows[i].name \in DOMAIN SticksNoLength =>
               steelRows[i].price_per_m =
                   RDiv(RInt(SticksNoLength[steelRows[i].name]),
                        RMul(RInt(19), Rat(3048, 10000)))
        /\ steelRows[i].name \in DOMAIN SticksInMeters =>
               steelRows[i].price_per_m =
                   Rat(SticksInMeters[steelRows[i].name][1],
                       SticksInMeters[steelRows[i].name][2])

\* load_steel returned rows for a stick with no length and for "Rebar 1/2 corr 6m"
C3_Witness ==
    /\ loadPc = "done"
    /\ loader = "steel"
    /\ Len(steelRows) = 2
    /\ steelRows[1].name = "Rebar 3/8 corr"
    /\ steelRows[2].name = "Rebar 1/2 corr 6m"
    /\ steelRows[2].price_per_m = RInt(10)

\* a row is malformed when it has no parseable name or price
WellFormed(r) == r.name # "" /\ PriceOf(r).tag = "val"

\* C5: a malformed row is skipped by itself: to_float never raises on a price
\* in which no number can be parsed, and the table a loader returns for a file
\* is the table it returns for the file without its malformed rows
C5_MalformedRowsSkipped ==
    /\ loadPc # "raised"
    /\ loadPc = "done" =>
           prices = TableOf(loader, SelectSeq(csvRows, WellFormed), cementGrade)

(***************************************************************************)
(* What a formula is worth, by the rules of arithmetic                     *)
(***************************************************************************)
OperandValue ==
    ("390" :> RInt(390)) @@ ("1.308" :> Rat(1308, 1000)) @@ ("2" :> RInt(2)) @@
    ("0.5" :> Rat(1, 2)) @@ ("12" :> RInt(12)) @@ ("0" :> RZero)

ApplyOp(op, x, y) ==
    CASE Strip(op) = "*" -> RMul(x, y)
      [] Strip(op) = "/" -> RDiv(x, y)
      [] Strip(op) = "+" -> RAdd(x, y)
      [] Strip(op) = "-" -> RSub(x, y)

Multiplicative(op) == Strip(op) \in {"*", "/"}

\* a op b op2 c: * and / bind tighter than + and -, equals from the left
Ternary(x, op, y, op2, z) ==
    IF Multiplicative(op2) /\ ~Multiplicative(op)
    THEN ApplyOp(op, x, ApplyOp(op2, y, z))
    ELSE ApplyOp(op2, ApplyOp(op, x, y), z)

\* the formula has a value: it does not divide by zero
Evaluates(in) == ~(Strip(in.op) = "/" /\ RIsZero(OperandValue[in.b]))

FormulaValue(in) ==
    IF in.op2 = "" THEN ApplyOp(in.op, OperandValue[in.a], OperandValue[in.b])
    ELSE Ternary(OperandValue[in.a], in.op, OperandValue[in.b], in.op2,
                 OperandValue[in.c])

\* to_float returned the value v
Returned(v) == floatOut = FVal(v)

\* the general part of C4: a formula gives its value, a price with a currency
\* token or separators the number written in it
FormulaOrMoney ==
    /\ (floatIn.kind = "formula" /\ Evaluates(floatIn)) => Returned(FormulaValue(floatIn))
    /\ floatIn.kind = "money" => Returned(floatIn.value)

\* C4 as the specification words it: to_float returns the evaluated result of
\* a formula of digits, dots, spaces and + - * /, "390*1.308" giving 494.52,
\* and strips a currency token and separators, "$1,090.00" giving 1090.0
C4_Original ==
    floatOut # FPending =>
        /\ FormulaOrMoney
        /\ floatIn.text = "390*1.308" => Returned(Rat(49452, 100))
        /\ floatIn.text = "$1,090.00" => Returned(RInt(1090))

\* C4, amended: to_float returns the evaluated result of a formula of digits,
\* dots, spaces and + - * / that evaluates, "390*1.308" giving 510.12, and
\* strips a currency token and separators, "$1,090.00" giving 1090.0
C4_FormulaValue ==
    floatOut # FPending =>
        /\ FormulaOrMoney
        /\ floatIn.text = "390*1.308" => Returned(Rat(51012, 100))
        /\ floatIn.text = "$1,090.00" => Returned(RInt(1090))

\* to_float has answered for the formula of the specification
C4_Witness ==
    /\ floatIn.kind = "formula"
    /\ floatIn.text = "390*1.308"
    /\ floatOut.tag = "val"

(***************************************************************************)
(* Properties of the delivery fee                                          *)
(***************************************************************************)
RAbs(x) == <<Abs(x[1]), x[2]>>

\* f is x rounded to 2 decimals: a whole number of cents, half a cent from x
\* at most
RoundedTo2(f, x) == 100 % f[2] = 0 /\ RLe(RAbs(RSub(f, x)), Rat(1, 200))

\* base + (km - radius) x rate
BeyondRadius(base, km, radius, rate) == RAdd(base, RMul(RSub(km, radius), rate))

\* C6: compute_delivery_fee_km returns the base fee for a distance up to the
\* free radius and, beyond it, base fee + (distance - free radius) x per-km
\* rate rounded to 2 decimals
C6_FeeByDistance ==
    feeOp = "compute" =>
        IF RLe(feeKm, FREE_RADIUS_KM) THEN feeOut.fee = BASE_FEE
        ELSE RoundedTo2(feeOut.fee, BeyondRadius(BASE_FEE, feeKm, FREE_RADIUS_KM, PER_KM))

\* a fee was computed beyond the free radius, and one that needed rounding
C6_Witness ==
    /\ feeOp = "compute"
    /\ envBaseFee = "50" /\ envPerKm = "2.5" /\ envFreeRadius = "5"
    /\ feeKm = Rat(12345, 1000)
    /\ feeOut.fee = Rat(6836, 100)

\* C7: the fee /api/delivery-quote returns for the distance d is base fee +
\* max(0, d - free radius) x per-km rate rounded to 2 decimals, as
\* compute_delivery_fee_km has it, and the base fee inside the free radius
\* (with the base fee and the rate the endpoint itself is configured with)
C7_QuoteUsesFreeRadius ==
    (feeOp = "quote" /\ feeOut.code = 200) =>
        IF RLe(feeKm, FREE_RADIUS_KM) THEN feeOut.fee = DELIVERY_BASE_FEE
        ELSE RoundedTo2(feeOut.fee,
                        BeyondRadius(DELIVERY_BASE_FEE, feeKm, FREE_RADIUS_KM,
                                     DELIVERY_PER_KM))

(***************************************************************************)
(* Properties of the stored lines and totals                               *)
(***************************************************************************)
\* a line with both a unit price and a total has total = quantity x unit price
Consistent(quantity, unit_price, line_total) ==
    (unit_price # None /\ line_total # None) => line_total = RMul(quantity, unit_price)

\* C8: every stored purchase line, every stored receipt line and every line
\* _validate_purchase_lines returned that has a unit_price and a line_total
\* has line_total = quantity x unit_price
C8_LineTotalIsQuantityTimesPrice ==
    /\ \A r \in lineItems : Consistent(r.quantity, r.unit_price, r.line_total)
    /\ \A i \in 1..Len(receiptLines) :
           Consistent(receiptLines[i].quantity, receiptLines[i].unit_price,
                      receiptLines[i].line_total)
    /\ \A i \in 1..Len(validated) :
           Consistent(validated[i].qty, validated[i].unit_price, validated[i].line_total)

\* the sum of the line totals of a set of purchase lines
RECURSIVE SumOfLines(_)
SumOfLines(rows) ==
    IF rows = {} THEN RZero
    ELSE LET r == CHOOSE x \in rows : TRUE
         IN  RAdd(OrZero(r.line_total), SumOfLines(rows \ {r}))

LinesOfInvoice(id) == {r \in lineItems : r.invoice_id = id}

LinesOfReceipt(id) == SelectSeq(receiptLines, LAMBDA r : r.receipt_id = id)

\* C9: after every committed save of a purchase invoice and every created
\* receipt, the stored subtotal is the sum of the line totals of the lines
\* stored for it and the stored total is that sum plus the stored tax
C9_TotalIsLinesPlusTax ==
    /\ \A id \in 1..Len(invoices) :
           /\ invoices[id].subtotal = SumOfLines(LinesOfInvoice(id))
           /\ invoices[id].total = RAdd(SumOfLines(LinesOfInvoice(id)), invoices[id].tax)
    /\ \A id \in 1..Len(receipts) :
           /\ receipts[id].subtotal = SumRows(LinesOfReceipt(id))
           /\ receipts[id].total = RAdd(SumRows(LinesOfReceipt(id)), receipts[id].tax)

(***************************************************************************)
(* Properties of checkout and payment                                      *)
(***************************************************************************)
\* C10: whenever /checkout or the charge path of /payment answers with an
\* error, a failed call of the payment gateway included, no Order of that
\* request is stored: the Order table is what it was before the request
C10_ErrorLeavesNoOrder ==
    shopResp.error => orders = ordersBefore


(***************************************************************************)
(* The price load at import and the BuildAdvisor endpoints (app.py)        *)
(***************************************************************************)
\* a loader raises when to_float raises on one of its rows
LoaderRaises(l, rows) == \E i \in 1..Len(rows) : EntryFor(l, rows[i]).status = "raise"

SteelKeptMeta(r, p, e) == IF e.status = "ok" THEN <<SteelMeta(r, p, e)>> ELSE <<>>

\* the rows list load_steel returns
RECURSIVE SteelRowsOf(_)
SteelRowsOf(rows) ==
    IF rows = <<>> THEN <<>>
    ELSE SteelKeptMeta(Head(rows), PriceOf(Head(rows)), SteelEntry(Head(rows)))
         \o SteelRowsOf(Tail(rows))

\* what _safe_load_prices returns, or that it raised
PriceLoad(raised, table, meta, error) ==
    [raised |-> raised, prices |-> table, meta |-> meta, error |-> error]

\* app.py line 314; building_meta, the lists of purlins, blocks and cement
\* rows of load_building, is not kept
LoadedMeta(files, agg) == [steel_rows |-> SteelRowsOf(files.steel), aggregates |-> agg]

AnyLoaderRaises(files) ==
    \/ LoaderRaises("aggregates", files.aggregates)
    \/ LoaderRaises("steel", files.steel)
    \/ LoaderRaises("building", files.building)

\* app.py lines 310-315
LoadedPrices(files, grade, agg) ==
    PriceLoad(FALSE,
              merge_prices(<<agg, TableOf("steel", files.steel, grade),
                             TableOf("building", files.building, grade)>>),
              LoadedMeta(files, agg), NoError)

\* the same without the except of lines 316-318
safe_load_prices_NoExcept(import_error, files, grade) ==
    IF import_error THEN PriceLoad(FALSE, EmptyPrices, EmptyPrices, "Import error")
    ELSE IF AnyLoaderRaises(files) THEN PriceLoad(TRUE, EmptyPrices, EmptyPrices, NoError)
    ELSE LoadedPrices(files, grade, TableOf("aggregates", files.aggregates, grade))

\* _safe_load_prices, app.py lines 306-318; a missing file is a file of no rows
safe_load_prices(import_error, files, grade) ==
    IF import_error THEN PriceLoad(FALSE, EmptyPrices, EmptyPrices, "Import error")
    ELSE IF AnyLoaderRaises(files)
    THEN PriceLoad(FALSE, EmptyPrices, EmptyPrices, "Failed to load price files: ValueError")
    ELSE LoadedPrices(files, grade, TableOf("aggregates", files.aggregates, grade))

\* a body with no estimate
NoEstimate == Estimate(<<>>, None)

\* a response of /api/chat or /api/bom/extract: estimate and assistant are the
\* values of the body under these keys (NoEstimate and "" when it has none),
\* raised says that an exception came up in the handler, detail that the body
\* has the message of that exception and trace that it has a traceback
AdviseResponse(op, code, ok, estimate, assistant, error, raised, detail, trace) ==
    [op |-> op, code |-> code, ok |-> ok, estimate |-> estimate,
     assistant |-> assistant, error |-> error, raised |-> raised, detail |-> detail,
     trace |-> trace]

AdviseError(op, code, error) ==
    AdviseResponse(op, code, FALSE, NoEstimate, "", error, FALSE, FALSE, FALSE)

\* app.py lines 1696-1702 and 1760-1766
AdviseOk(op, priced, narrative) ==
    AdviseResponse(op, 200, TRUE, priced, narrative, "", FALSE, FALSE, FALSE)

\* app.py lines 1694 and 1756
DefaultText == "Here's the step-by-step plan and a materials summary."

\* the body of a request: json is "invalid" (get_json raises), "array" (JSON
\* that is no object and not falsy) or "object"; message and file_ids ("none",
\* "found" or "missing" for no list, files that exist, a file that does not)
\* are the values of the object
AdviseBody(json, message, file_ids) == [json |-> json, message |-> message, file_ids |-> file_ids]

\* if x: of the global error text
Truthy(error) == error # NoError /\ error # ""

\* app.py lines 1682-1687 and 1734-1739: the checks before the estimate
Unavailable(import_error, prices_error, key) ==
    import_error \/ Truthy(prices_error) \/ ~key

UnavailableError(import_error, prices_error) ==
    IF import_error THEN "Import error"
    ELSE IF Truthy(prices_error) THEN prices_error
    ELSE "OPENAI_API_KEY is not set"

\* app.py lines 1706-1712: the except of api_chat, for an exception of the
\* type named: the body has the type and the message under "error" and the
\* traceback under "trace"
ChatExcept(type_name) ==
    AdviseResponse("chat", 500, FALSE, NoEstimate, "", type_name, TRUE, TRUE, TRUE)

\* app.py lines 1689-1702; narrative is what expand_steps_with_ai returns
ChatAnswer(ai_bom, table, narrative) ==
    IF ~HasLines(ai_bom) THEN ChatExcept("TypeError")
    ELSE AdviseOk("chat", price_bom_lines(ai_bom.lines, table), narrative.text)

\* api_chat, app.py lines 1668-1712; ai_bom is what propose_bom_with_ai returns
api_chat(body, import_error, prices_error, key, table, ai_bom, narrative) ==
    IF body.json = "invalid" THEN AdviseError("chat", 400, "Invalid JSON")
    ELSE IF body.json = "array" THEN ChatExcept("AttributeError")
    ELSE IF Strip(body.message) = "" THEN AdviseError("chat", 400, "Empty message")
    ELSE IF Unavailable(import_error, prices_error, key)
    THEN AdviseError("chat", 500, UnavailableError(import_error, prices_error))
    ELSE ChatAnswer(ai_bom, table, narrative)

\* handle_500, app.py lines 521-527, for a path under /api/
handle_500(op) ==
    AdviseResponse(op, 500, FALSE, NoEstimate, "", "Server error", TRUE, FALSE, FALSE)

\* app.py lines 1750-1766
ExtractAnswer(ai_bom, table, narrative) ==
    IF ~HasLines(ai_bom) THEN AdviseError("extract", 502, "Vision extraction failed")
    ELSE AdviseOk("extract", price_bom_lines(ai_bom.lines, table), narrative.text)

\* api_bom_extract, app.py lines 1721-1767: it has no try around the body, so
\* an exception reaches the error handler of the application
api_bom_extract(body, import_error, prices_error, key, table, ai_bom, narrative) ==
    IF body.json = "invalid" THEN AdviseError("extract", 400, "Invalid JSON")
    ELSE IF body.json = "array" THEN handle_500("extract")
    ELSE IF body.file_ids = "none"
    THEN AdviseError("extract", 400, "file_ids must be a non-empty list")
    ELSE IF Unavailable(import_error, prices_error, key)
    THEN AdviseError("extract", 500, UnavailableError(import_error, prices_error))
    ELSE IF body.file_ids = "missing" THEN AdviseError("extract", 400, "File not found")
    ELSE ExtractAnswer(ai_bom, table, narrative)

\* the models that may fail, and the values of the two environment variables
ModelNames == {"gpt-4o-mini", "gpt-4o"}
EnvModels == {Unset, "", "gpt-4o"}
EnvFallbacks == {"", ",", "gpt-4o, gpt-4o-mini"}

\* the primary model of line 61: os.getenv("OPENAI_MODEL", MODEL)
PrimaryModel(env) == IF env = Unset THEN MODEL ELSE env

BomItemPool ==
    { BomItem("sand_m3", JNum(RInt(2)), JText("m3")),
      BomItem("cement_bag", JText("18"), JText(" Bags ")),
      BomItem("rebar_corr_1_2_m", JNum(Rat(25, 2)), JText("meters")),
      BomItem("lumber_2x4", JNum(RInt(3)), JText("pcs")),
      BomItem("gravel_m3", JNum(RZero), JText("m3")),
      BomItem("gravel_m3", JNum(RInt(-1)), JText("m3")),
      BomItem("sand_m3", JText("two"), JText("m3")),
      BomItem("sand_m3", JText("nan"), JText("m3")),
      BomItem("sand_m3", JNull, JText("m3")),
      BomItem("purlin_z_m", JNum(RInt(6)), JText("yd3")),
      BomItem("block_6in", JNum(RInt(10)), JNum(RInt(5))),
      NoDict }

\* a reply that is a JSON object with the value lines under "lines"
ObjectReply(lines) == Reply("object", "{...}", lines, TRUE, JNull, JNull)

\* the replies that are no JSON object
BadReplies ==
    { Reply("none", "", NoList, TRUE, JNull, JNull),
      Reply("text", "Sure, here is the list", NoList, TRUE, JNull, JNull),
      Reply("array", "[1, 2]", NoList, TRUE, JNull, JNull) }

BomReplies ==
    BadReplies \cup {ObjectReply(NoList)}
               \cup {ObjectReply(JList(items)) : items \in ListsOf(BomItemPool)}

\* the replies to the request for a narrative
StepsReplies ==
    { Reply("none", "", NoList, TRUE, JNull, JNull),
      Reply("text", "1. Set the formwork", NoList, TRUE, JNull, JNull) }

\* the replies the model of the two endpoints draws from
ChatReplies ==
    BadReplies \cup
    { ObjectReply(JList(<<BomItem("sand_m3", JNum(RInt(2)), JText("m3")),
                          BomItem("cement_bag", JText("18"), JText(" Bags "))>>)),
      ObjectReply(JList(<<BomItem("lumber_2x4", JNum(RInt(3)), JText("pcs"))>>)) }

ChatBodies ==
    { AdviseBody("invalid", "", "none"), AdviseBody("array", "", "none"),
      AdviseBody("object", "  ", "none"), AdviseBody("object", "a 3 x 4 m slab", "none") }

ExtractBodies ==
    { AdviseBody("invalid", "", "none"), AdviseBody("array", "", "none"),
      AdviseBody("object", "", "none"), AdviseBody("object", "", "found"),
      AdviseBody("object", "", "missing") }

\* the price files the price load reads
AggFiles == {<<>>, <<Row("sand_m3", "100")>>, <<Row("sand_m3", "n.a.")>>}
SteelFiles == {<<>>, <<Row("Rebar 1/2 corr 6m", "60")>>, <<Row("Rebar 16mm 20ft", "n.a.")>>}
BuildingFiles ==
    {<<>>, <<Row("Cement", "50"), Row("Eco cement", "40")>>, <<Row("Cement", "n.a.")>>}

InitAdvise ==
    /\ FloatIdle
    /\ FeeIdle
    /\ StaffIdle
    /\ ShopIdle
    /\ UserIdle
    /\ ReportIdle
    /\ MergeIdle
    /\ LastIdle
    /\ loader = "none" /\ csvRows = <<>> /\ rowIdx = 1 /\ prices = EmptyPrices
    /\ steelRows = <<>> /\ loadPc = "done"
    /\ cementGrade \in {"", "eco"}
    /\ openaiKey \in BOOLEAN
    /\ envModel = Unset
    /\ envFallbacks \in {"", ","}
    /\ aiCall = NoAiCall
    /\ aiOut = AiEmpty
    /\ baImportError \in BOOLEAN
    /\ priceFiles \in [aggregates : AggFiles, steel : SteelFiles, building : BuildingFiles]
    /\ PRICES = EmptyPrices
    /\ META = EmptyPrices
    /\ PRICES_ERROR = NoError
    /\ advisePc = "import"
    /\ adviseResp = NoAdviseResponse

\* app.py line 320, when the module is imported
Loaded(load) ==
    /\ PRICES' = load.prices
    /\ META' = load.meta
    /\ PRICES_ERROR' = load.error
    /\ advisePc' = IF load.raised THEN "crashed" ELSE "serving"

SafeLoadPrices ==
    /\ advisePc = "import"
    /\ Loaded(safe_load_prices(baImportError, priceFiles, cementGrade))
    /\ UNCHANGED <<baImportError, priceFiles, adviseResp, aiVars, userVars, reportVars, mergeVars, lastVars,
                   firstVars>>

ModelSequence == get_model_sequence(PrimaryModel(envModel), envFallbacks)

\* POST /api/chat
ApiChat ==
    /\ advisePc = "serving"
    /\ \E body \in ChatBodies, failing \in SUBSET ModelNames, reply \in ChatReplies,
          failing2 \in {{}, ModelNames}, reply2 \in StepsReplies :
          adviseResp' =
              api_chat(body, baImportError, PRICES_ERROR, openaiKey, PRICES,
                       propose_bom_with_ai(openaiKey, ModelSequence, failing, reply),
                       expand_steps_with_ai(openaiKey, ModelSequence, failing2, reply2,
                                            DefaultText))
    /\ UNCHANGED <<baImportError, priceFiles, PRICES, META, PRICES_ERROR, advisePc,
                   aiVars, userVars, reportVars, mergeVars, lastVars,
                   firstVars>>

\* POST /api/bom/extract
ApiBomExtract ==
    /\ advisePc = "serving"
    /\ \E body \in ExtractBodies, failing \in SUBSET ModelNames, reply \in ChatReplies,
          failing2 \in {{}, ModelNames}, reply2 \in StepsReplies :
          adviseResp' =
              api_bom_extract(body, baImportError, PRICES_ERROR, openaiKey, PRICES,
                              propose_bom_from_vision(openaiKey, ModelSequence, failing, reply),
                              expand_steps_with_ai(openaiKey, ModelSequence, failing2,
                                                   reply2, DefaultText))
    /\ UNCHANGED <<baImportError, priceFiles, PRICES, META, PRICES_ERROR, advisePc,
                   aiVars, userVars, reportVars, mergeVars, lastVars,
                   firstVars>>

NextAdvise ==
    \/ SafeLoadPrices
    \/ ApiChat
    \/ ApiBomExtract

SpecAdvise == InitAdvise /\ [][NextAdvise]_vars

\* the two endpoints answer with an error and no estimate
ErrorResponse(resp) == ~resp.ok /\ resp.code >= 400 /\ resp.estimate = NoEstimate

\* the price load degraded: nothing loaded, and an error text that is set
Degraded == PRICES = EmptyPrices /\ META = EmptyPrices /\ Truthy(PRICES_ERROR)

\* while the error is set, a request to /api/chat or /api/bom/extract is
\* answered with an error
ErrorGates == adviseResp.op # "none" /\ Truthy(PRICES_ERROR) => ErrorResponse(adviseResp)

\* C11 as it is stated: _safe_load_prices never raises; if a loader raises it
\* returns an empty table, empty metadata and a non-empty error text, and
\* while the error is set the two endpoints answer with an error and no
\* estimate; when no loader raises the error is absent
C11_Original ==
    /\ advisePc # "crashed"
    /\ advisePc = "serving" =>
          /\ AnyLoaderRaises(priceFiles) => Degraded
          /\ ErrorGates
          /\ ~AnyLoaderRaises(priceFiles) => PRICES_ERROR = NoError

\* C11: _safe_load_prices never raises; if a loader raises, or an import of
\* app.py failed, it returns an empty table, empty metadata and a non-empty
\* error text, and while the error is set the two endpoints answer with an
\* error and no estimate; the error is absent when the imports succeeded and
\* no loader raises
C11_PricesUnavailable ==
    /\ advisePc # "crashed"
    /\ advisePc = "serving" =>
          /\ AnyLoaderRaises(priceFiles) \/ baImportError => Degraded
          /\ ErrorGates
          /\ ~AnyLoaderRaises(priceFiles) /\ ~baImportError => PRICES_ERROR = NoError

\* a loader raised on a price of "n.a.", the imports succeeded, and /api/chat
\* answered a well-formed request with the error of the price load
C11_Witness ==
    /\ advisePc = "serving"
    /\ ~baImportError
    /\ LoaderRaises("building", priceFiles.building)
    /\ openaiKey
    /\ adviseResp.op = "chat"
    /\ adviseResp.code = 500
    /\ adviseResp.error = PRICES_ERROR

(***************************************************************************)
(* The AI entry points on their own: one call of one entry point, for an   *)
(* environment, the models that fail and the reply of the first that       *)
(* answers                                                                 *)
(***************************************************************************)
PurchaseReplies ==
    BadReplies \cup
    { Reply("object", "{...}", lines, strings, tax, JNull) :
        lines \in {NoList} \cup {JList(items) : items \in ListsOf(VLinePool)},
        strings \in BOOLEAN, tax \in {JNull, JNum(Rat(25, 2)), JText("n/a")} }

ExpenseItemPool ==
    { ExpenseItem(JText(" Fuel "), JText("diesel"), JNum(Rat(12345, 1000))),
      ExpenseItem(JText("other"), JNull, JText("40")),
      ExpenseItem(JNull, JText("lunch"), JNum(RInt(30))),
      ExpenseItem(JText("salaries"), JText("June"), JNum(RZero)),
      ExpenseItem(JText("fuel"), JText(""), JText("abc")),
      ExpenseItem(JNum(RInt(7)), JText("misc"), JNum(RInt(5))),
      NoExpenseDict }

ExpenseReplies ==
    BadReplies \cup
    { Reply("object", "{...}", lines, strings, JNull, JNull) :
        lines \in {NoList} \cup {JList(items) : items \in ListsOf(ExpenseItemPool)},
        strings \in BOOLEAN }

\* the texts a caller of expand_steps_with_ai hands over as the default
DefaultTexts == {DefaultText, "See the estimate."}

JsonEntryPoints ==
    { "propose_bom_with_ai", "propose_bom_from_vision", "propose_purchase_from_text",
      "propose_invoice_from_vision", "propose_expenses_from_text",
      "propose_expenses_from_vision" }

RepliesOf(op) ==
    CASE op \in {"propose_bom_with_ai", "propose_bom_from_vision"} -> BomReplies
      [] op \in {"propose_purchase_from_text", "propose_invoice_from_vision"} -> PurchaseReplies
      [] op \in {"propose_expenses_from_text", "propose_expenses_from_vision"} -> ExpenseReplies
      [] op = "expand_steps_with_ai" -> StepsReplies \cup BadReplies

\* a call: of an entry point, with the models that fail, the reply of the
\* first that answers and the default text; of _validate_lines, with the list
\* under reply.lines; of price_bom_lines, with that list and a price table
AiCall(op, failing, reply, default_text, table) ==
    [op |-> op, failing |-> failing, reply |-> reply, default_text |-> default_text,
     table |-> table]

\* the lines and the price tables handed to price_bom_lines
PricingPool ==
    { BomLine("sand_m3", RInt(2), "m3"), BomLine("cement_bag", RInt(18), "bag"),
      BomLine("paint_gal", Rat(3, 2), "gal"), BomLine("lumber_2x4", RInt(3), "pcs"),
      BomLine("sand_m3", NotANumber, "m3") }

PriceTables ==
    { EmptyPrices, ("sand_m3" :> RInt(100)) @@ ("cement_bag_eco" :> Rat(4015, 100)) }

AiCalls ==
    UNION { {AiCall(op, failing, reply, "", EmptyPrices) :
                failing \in SUBSET ModelNames, reply \in RepliesOf(op)}
            : op \in JsonEntryPoints }
    \cup { AiCall("expand_steps_with_ai", failing, reply, default_text, EmptyPrices) :
             failing \in SUBSET ModelNames, reply \in RepliesOf("expand_steps_with_ai"),
             default_text \in DefaultTexts }
    \cup { AiCall("validate_lines", {}, ObjectReply(lines), "", EmptyPrices) :
             lines \in {NoList} \cup {JList(items) : items \in ListsOf(BomItemPool)} }
    \cup { AiCall("price_bom_lines", {}, ObjectReply(JList(lines)), "", table) :
             lines \in ListsOf(PricingPool), table \in PriceTables }

InitAI ==
    /\ LoadIdle
    /\ FloatIdle
    /\ FeeIdle
    /\ StaffIdle
    /\ ShopIdle
    /\ AdviseIdle
    /\ UserIdle
    /\ ReportIdle
    /\ MergeIdle
    /\ LastIdle
    /\ openaiKey \in BOOLEAN
    /\ envModel \in EnvModels
    /\ envFallbacks \in EnvFallbacks
    /\ aiCall \in AiCalls
    /\ aiOut = AiPending

\* the entry point op is called and returns out
Called(op) == aiCall.op = op /\ aiOut = AiPending

Returns(out) ==
    /\ aiOut' = out
    /\ UNCHANGED <<openaiKey, envModel, envFallbacks, aiCall, adviseVars, userVars, reportVars, mergeVars, lastVars,
                   firstVars>>

ProposeBomWithAi ==
    /\ Called("propose_bom_with_ai")
    /\ Returns(propose_bom_with_ai(openaiKey, ModelSequence, aiCall.failing, aiCall.reply))

ProposeBomFromVision ==
    /\ Called("propose_bom_from_vision")
    /\ Returns(propose_bom_from_vision(openaiKey, ModelSequence, aiCall.failing, aiCall.reply))

ExpandStepsWithAi ==
    /\ Called("expand_steps_with_ai")
    /\ Returns(expand_steps_with_ai(openaiKey, ModelSequence, aiCall.failing, aiCall.reply,
                                    aiCall.default_text))

ProposePurchaseFromText ==
    /\ Called("propose_purchase_from_text")
    /\ Returns(propose_purchase_from_text(openaiKey, ModelSequence, aiCall.failing,
                                          aiCall.reply))

ProposeInvoiceFromVision ==
    /\ Called("propose_invoice_from_vision")
    /\ Returns(propose_invoice_from_vision(openaiKey, ModelSequence, aiCall.failing,
                                           aiCall.reply))

ProposeExpensesFromText ==
    /\ Called("propose_expenses_from_text")
    /\ Returns(propose_expenses_from_text(openaiKey, ModelSequence, aiCall.failing,
                                          aiCall.reply))

ProposeExpensesFromVision ==
    /\ Called("propose_expenses_from_vision")
    /\ Returns(propose_expenses_from_vision(openaiKey, ModelSequence, aiCall.failing,
                                            aiCall.reply))

\* _validate_lines on the list of the call
ValidateLines ==
    /\ Called("validate_lines")
    /\ Returns(AiResult(FALSE, validate_lines(aiCall.reply.lines), "", None, None))

EstimateResult(est) == AiResult(FALSE, est.lines, "", None, est.total)

\* price_bom_lines on the lines and the table of the call
PriceBomLines ==
    /\ Called("price_bom_lines")
    /\ Returns(EstimateResult(price_bom_lines(aiCall.reply.lines.items, aiCall.table)))

NextAI ==
    \/ ValidateLines
    \/ PriceBomLines
    \/ ProposeBomWithAi
    \/ ProposeBomFromVision
    \/ ExpandStepsWithAi
    \/ ProposePurchaseFromText
    \/ ProposeInvoiceFromVision
    \/ ProposeExpensesFromText
    \/ ProposeExpensesFromVision

SpecAI == InitAI /\ [][NextAI]_vars

\* the entry point returned
AiReturned == aiCall.op # "none" /\ aiOut # AiPending

\* an AI entry point returned
EntryPointReturned ==
    AiReturned /\ aiCall.op \in JsonEntryPoints \cup {"expand_steps_with_ai"}

\* no client, or no model of the sequence answers
NoAnswer == ~openaiKey \/ Answering(ModelSequence, aiCall.failing) = {}

\* the result the claim names for the entry point: {} or the default text
Degrades ==
    /\ ~aiOut.raised
    /\ IF aiCall.op = "expand_steps_with_ai" THEN aiOut.text = aiCall.default_text
       ELSE aiOut.empty

\* C12 as it is stated: every entry point returns an empty result, and
\* expand_steps_with_ai the default text, without raising, when credentials
\* are missing, when every model fails or when the reply is no JSON object
C12_Original ==
    EntryPointReturned /\ (NoAnswer \/ aiCall.reply.content # "object") => Degrades

\* C12: the six entry points that parse the reply return an empty result,
\* without raising, when credentials are missing, when every model of the
\* sequence fails or when the reply is no JSON object; expand_steps_with_ai,
\* which does not parse the reply, returns the default text, without raising,
\* when credentials are missing, when every model fails or when the reply
\* has no text
C12_DegradesToEmpty ==
    /\ EntryPointReturned
    /\ \/ NoAnswer
       \/ aiCall.op \in JsonEntryPoints /\ aiCall.reply.content # "object"
       \/ aiCall.op = "expand_steps_with_ai" /\ aiCall.reply.text = ""
    => Degrades

\* propose_bom_with_ai had a client, its first model failed and the second
\* answered with text that is no JSON, and it returned {}
C12_Witness ==
    /\ AiReturned
    /\ aiCall.op = "propose_bom_with_ai"
    /\ openaiKey
    /\ aiCall.failing = {"gpt-4o-mini"}
    /\ Answering(ModelSequence, aiCall.failing) # {}
    /\ aiCall.reply.content = "text"
    /\ aiOut = AiEmpty

\* a number greater than 0: NaN is none
Positive(x) == x # NotANumber /\ RLt(RZero, x)

\* the quantity of an element is a number, or the text of one, greater than 0
PositiveQuantity(qty) == FloatOf(qty).tag = "val" /\ Positive(FloatOf(qty).val)

\* the element is one the claim keeps
Acceptable(it) ==
    /\ it.dict
    /\ it.key \in ALLOWED_KEYS
    /\ PositiveQuantity(it.qty)
    /\ norm_unit(it.unit) \in ALLOWED_UNITS

\* s is a subsequence of items read as lines: the lines of some of the
\* elements, in their order
RECURSIVE IsSubsequence(_, _)
IsSubsequence(s, items) ==
    IF s = <<>> THEN TRUE
    ELSE IF items = <<>> THEN FALSE
    ELSE IF Head(items).dict /\ Head(s).key = Head(items).key
            /\ Head(s).unit = norm_unit(Head(items).unit)
            /\ FloatOf(Head(items).qty) = FVal(Head(s).qty)
            /\ IsSubsequence(Tail(s), Tail(items))
    THEN TRUE
    ELSE IsSubsequence(s, Tail(items))

\* the calls whose result is a list _validate_lines made
ValidatedCall ==
    /\ AiReturned
    /\ aiCall.op \in {"validate_lines", "propose_bom_with_ai", "propose_bom_from_vision"}
    /\ ~aiOut.empty

\* C13: every line _validate_lines returns has a key of the allow-list, a
\* quantity greater than 0 and a unit of the fixed set; as many lines are
\* returned as the input has elements with such a key, quantity and unit, the
\* lines are a subsequence of the input, and price_bom_lines emits no line
\* whose key is outside the allow-list
C13_ValidatedLines ==
    /\ ValidatedCall =>
          /\ \A i \in 1..Len(aiOut.lines) :
                /\ aiOut.lines[i].key \in ALLOWED_KEYS
                /\ Positive(aiOut.lines[i].qty)
                /\ aiOut.lines[i].unit \in ALLOWED_UNITS
          /\ Len(aiOut.lines) = Cardinality({i \in 1..Len(aiCall.reply.lines.items) :
                                               Acceptable(aiCall.reply.lines.items[i])})
          /\ IsSubsequence(aiOut.lines, aiCall.reply.lines.items)
    /\ AiReturned /\ aiCall.op = "price_bom_lines" =>
          \A i \in 1..Len(aiOut.lines) : aiOut.lines[i].key \in ALLOWED_KEYS

(***************************************************************************)
(* The cached delivery values of a user (app.py): the requests that read   *)
(* or write current_user.distance_km and current_user.delivery_fee         *)
(***************************************************************************)
\* the distances of the positions a user may save
PlaceKms == {UserKm, RInt(3)}

\* signup, app.py lines 606-626: the user record has the lat and lng, the
\* distance_km and the delivery_fee of the form, each of them or none
InitUser ==
    /\ LoadIdle
    /\ FloatIdle
    /\ StaffIdle
    /\ AiIdle
    /\ AdviseIdle
    /\ ReportIdle
    /\ MergeIdle
    /\ LastIdle
    /\ envBaseFee \in {"", "50"}
    /\ envPerKm \in {"", "6"}
    /\ envFreeRadius = ""
    /\ feeOp = "none"
    /\ feeKm = RZero
    /\ feeOut = NoFee
    /\ orders = <<>>
    /\ ordersBefore = <<>>
    /\ userLocated \in BOOLEAN
    /\ userKm = UserKm
    /\ userDistanceKm \in {None, RInt(7)}
    /\ userDeliveryFee \in {None, RInt(20)}
    /\ wipayKey = TRUE
    /\ shopResp = NoShopResponse
    /\ shopCalls = 0

\* the user record is written and committed (lines 1778-1780, 1802-1805)
UserSaved(km) ==
    /\ userDistanceKm' = km
    /\ userDeliveryFee' = compute_delivery_fee_km(km, BASE_FEE, PER_KM, FREE_RADIUS_KM)

\* POST /api/me/recompute, app.py lines 1769-1781
MeRecompute ==
    /\ ShopRequest
    /\ IF ~userLocated
       THEN /\ ShopReturns("recompute", 400, TRUE)
            /\ UNCHANGED <<userDistanceKm, userDeliveryFee>>
       ELSE /\ ShopReturns("recompute", 200, FALSE)
            /\ UserSaved(userKm)
    /\ UNCHANGED <<userLocated, userKm, wipayKey, notUser>>

\* POST /api/me/location, app.py lines 1784-1806, with a body that has no
\* lat and lng float() takes
MeLocationInvalid ==
    /\ ShopRequest
    /\ ShopReturns("location", 400, TRUE)
    /\ UNCHANGED <<userLocated, userKm, userDistanceKm, userDeliveryFee, wipayKey,
                   notUser>>

\* POST /api/me/location with the lat and lng of a place
MeLocation ==
    \E km \in PlaceKms :
        /\ ShopRequest
        /\ ShopReturns("location", 200, FALSE)
        /\ userLocated' = TRUE
        /\ userKm' = km
        /\ UserSaved(km)
        /\ UNCHANGED <<wipayKey, notUser>>

NextUser ==
    \/ Checkout
    \/ PaymentPage
    \/ PaymentJson
    \/ PaymentForm
    \/ MeRecompute
    \/ MeLocationInvalid
    \/ MeLocation

SpecUser == InitUser /\ [][NextUser]_vars

\* the cached values and what they are computed from
UserRecord == <<userLocated, userKm, userDistanceKm, userDeliveryFee>>

\* the step is one of me_recompute or me_location
ExplicitStep == shopResp'.op \in {"recompute", "location"} /\ shopCalls' # shopCalls

\* C14 as it is stated: a request other than me_recompute and me_location
\* leaves the user record unchanged when the user has no coordinates or has
\* both values, and a stored value changes only through these two
C14_Original ==
    [][ /\ (~userLocated \/ (userDistanceKm # None /\ userDeliveryFee # None))
           /\ ~ExplicitStep => UNCHANGED UserRecord
        /\ userDistanceKm # None /\ userDistanceKm' # userDistanceKm => ExplicitStep
        /\ userDeliveryFee # None /\ userDeliveryFee' # userDeliveryFee => ExplicitStep ]_vars

\* the part of C14 that holds: a request other than me_recompute and
\* me_location leaves the user record unchanged when the user has no
\* coordinates or has both values
C14_CachedUntilAsked ==
    [][ (~userLocated \/ (userDistanceKm # None /\ userDeliveryFee # None))
        /\ ~ExplicitStep => UNCHANGED UserRecord ]_vars

\* GET /payment was answered for a user with coordinates who has the distance
\* and the fee of the signup form, and both are what they were
C14_Witness ==
    /\ shopResp.op = "payment"
    /\ shopResp.code = 200
    /\ userLocated
    /\ userDistanceKm = RInt(7)
    /\ userDeliveryFee = RInt(20)

\* the ids of the stored PurchaseLineItem rows
LineItemIds(rows) == {r.id : r \in rows}

BAGS_PER_YD3 ==
    LET v == DigitsToNat(IF envBagsPerYd3 = "" THEN "20" ELSE envBagsPerYd3)
    IN  IF v = 0 THEN 20 ELSE v
BAG_TO_YD3 == RDiv(RInt(1), RInt(BAGS_PER_YD3))
BAG_COST_PER_BAG == DecVal(IF envBagCost = "" THEN "2" ELSE envBagCost)

\* a or b on two texts (None of a nullable column is the empty text)
OrText(a, b) == IF a = "" THEN b ELSE a

\* x or 0.0 on a nullable number
OrZeroFloat(x) == IF x = None \/ RIsZero(x) THEN RZero ELSE x

AGGREGATES == {"sand", "gravel", "sharp_sand"}

\* normalize_material_name, lines 456-467
normalize_material_name(name) ==
    LET n == Lower(Strip(name))
    IN  IF n = "" THEN "other"
        ELSE IF Contains(n, "sharp sand") \/ Contains(n, "sharp_sand") THEN "sharp_sand"
        ELSE IF Contains(n, "gravel") THEN "gravel"
        ELSE IF Contains(n, "sand") THEN "sand"
        ELSE "other"

\* 0.764555, the cubic yards of a cubic metre as line 445 writes it
YD3_PER_M3 == Rat(764555, 1000000)

\* to_yd3, lines 436-453; product is "" for None
to_yd3(quantity, unit, product) ==
    LET qv == OrZeroFloat(quantity)
        u  == Lower(Strip(unit))
    IN  IF u = "yd3" THEN qv
        ELSE IF u = "m3" THEN RDiv(qv, YD3_PER_M3)
        ELSE IF u \in {"bag", "bags"}
             THEN IF normalize_material_name(product) \in AGGREGATES
                  THEN RMul(qv, BAG_TO_YD3) ELSE RZero
        ELSE RZero

\* the to_yd3 local to staff_reports_purchases, lines 804-816
to_yd3_purchases(quantity, unit) ==
    LET qv == OrZeroFloat(quantity)
        u  == Lower(Strip(unit))
    IN  IF u = "yd3" THEN qv
        ELSE IF u = "m3" THEN RDiv(qv, YD3_PER_M3)
        ELSE RZero

\* a date column holds midnight of its day and a created_at column a moment
\* within its day: the instants of the model are half days
Midnight(day) == 2 * day
Noon(day) == 2 * day + 1

\* a nullable date column: NULL, or the date of a day
NullDate == <<>>
DateOf(day) == <<Midnight(day)>>

\* the from and to arguments of a request ("" for None) as instants
ArgDay(text) == DigitsToNat(text)

\* one row of the join of PurchaseInvoice and PurchaseLineItem: supplier is
\* the name of inv.supplier ("" when the invoice has none), invoice_date_dt is
\* None when the column is NULL
PurchaseRow(material_key, description, unit, quantity, unit_price, line_total,
            supplier, supplier_name, invoice_date_dt, created_at) ==
    [material_key |-> material_key, category |-> "", description |-> description,
     unit |-> unit, quantity |-> quantity, unit_price |-> unit_price,
     line_total |-> line_total, supplier |-> supplier, supplier_name |-> supplier_name,
     invoice_date_dt |-> invoice_date_dt, created_at |-> created_at]

\* one row of the join of SalesReceipt and SalesReceiptLine
SalesRow(item_name, material_key, unit, quantity, unit_price, line_total,
         customer_name, created_at) ==
    [item_name |-> item_name, material_key |-> material_key, unit |-> unit,
     quantity |-> quantity, unit_price |-> unit_price, line_total |-> line_total,
     customer_name |-> customer_name, created_at |-> created_at]

\* lines 474-477 and 800-803: the filters on the purchase query (a comparison
\* with NULL selects nothing)
PurchaseInRange(r, from_date, to_date) ==
    /\ from_date # "" =>
           \/ r.invoice_date_dt # NullDate
              /\ r.invoice_date_dt[1] >= Midnight(ArgDay(from_date))
           \/ r.created_at >= Midnight(ArgDay(from_date))
    /\ to_date # "" =>
           \/ r.invoice_date_dt # NullDate
              /\ r.invoice_date_dt[1] <= Midnight(ArgDay(to_date))
           \/ r.created_at <= Midnight(ArgDay(to_date))

\* lines 996-1000 and 1047-1050: the filters on the sales query
SalesInRange(r, from_date, to_date) ==
    /\ from_date # "" => r.created_at >= Midnight(ArgDay(from_date))
    /\ to_date # "" => r.created_at < Midnight(ArgDay(to_date) + 1)

\* lines 1156-1166: the filters on the expense query
ExpenseInRange(e, from_date, to_date) ==
    /\ from_date # "" =>
           e.date_dt # NullDate /\ e.date_dt[1] >= Midnight(ArgDay(from_date))
    /\ to_date # "" =>
           e.date_dt # NullDate /\ e.date_dt[1] <= Midnight(ArgDay(to_date))

\* the sum of a list of floats
RECURSIVE FloatSum(_)
FloatSum(xs) == IF xs = <<>> THEN RZero ELSE RAdd(Head(xs), FloatSum(Tail(xs)))

\* the sum of F over the rows of a list
SumOver(rows, F(_)) == FloatSum([i \in 1..Len(rows) |-> F(rows[i])])

\* the order of str: the code points of the characters of the model
CodeOrder == " 0123456789ABCDEFGHIJKLMNOPQRSTUVWXYZ_abcdefghijklmnopqrstuvwxyz"
CodeOf(c) == CHOOSE i \in 1..Len(CodeOrder) : Ch(CodeOrder, i) = c

RECURSIVE StrLt(_, _)
StrLt(a, b) ==
    IF b = "" THEN FALSE
    ELSE IF a = "" THEN TRUE
    ELSE IF Ch(a, 1) = Ch(b, 1) THEN StrLt(Tail(a), Tail(b))
    ELSE CodeOf(Ch(a, 1)) < CodeOf(Ch(b, 1))

\* sorted(...) of the keys of a dict
RECURSIVE SortedKeys(_)
SortedKeys(keys) ==
    IF keys = {} THEN <<>>
    ELSE LET k == CHOOSE x \in keys : \A y \in keys : y = x \/ StrLt(x, y)
         IN  <<k>> \o SortedKeys(keys \ {k})

\* ---- _compute_weighted_avg_cost, lines 470-512 ----

\* lines 484-485
PurchaseProduct(li) ==
    normalize_material_name(Strip(OrText(li.material_key, OrText(li.category, li.description))))

\* lines 493-502
LineCost(li) ==
    OrZeroFloat(IF li.line_total = None
                THEN RMul(OrZeroFloat(li.unit_price), OrZeroFloat(li.quantity))
                ELSE li.line_total)

\* lines 486-491: the lines that add to the totals of product p
CostedLine(li, p) ==
    /\ PurchaseProduct(li) = p
    /\ p # "other"
    /\ RLt(RZero, to_yd3(li.quantity, li.unit, p))

LineYd3(li) == to_yd3(li.quantity, li.unit, PurchaseProduct(li))

\* lines 504-507: totals[p]
CostTotals(rows, p) ==
    LET mine == SelectSeq(rows, LAMBDA li : CostedLine(li, p))
    IN  [qty_yd3 |-> SumOver(mine, LineYd3), cost |-> SumOver(mine, LineCost)]

\* the dict returned: the average cost of the products with costed lines
compute_weighted_avg_cost(rows, from_date, to_date) ==
    LET found == SelectSeq(rows, LAMBDA r : PurchaseInRange(r, from_date, to_date))
        costed == {p \in AGGREGATES : \E i \in 1..Len(found) : CostedLine(found[i], p)}
    IN  [p \in {q \in costed : RLt(RZero, CostTotals(found, q).qty_yd3)} |->
            RDiv(CostTotals(found, p).cost, CostTotals(found, p).qty_yd3)]

\* avg_cost.get(product, 0.0)
AvgCostOf(avg_cost, product) ==
    IF product \in DOMAIN avg_cost THEN avg_cost[product] ELSE RZero

\* ---- staff_reports_purchases, lines 786-844 ----

PurchaseMaterial(li) ==
    Strip(OrText(li.material_key, OrText(li.category, OrText(li.description, "Unknown"))))

PurchaseSupplier(r) ==
    IF r.supplier # "" THEN r.supplier ELSE OrText(r.supplier_name, "Unknown")

PurchaseKey(r) == <<PurchaseMaterial(r), PurchaseSupplier(r)>>

PurchaseYd3(li) == to_yd3_purchases(li.quantity, li.unit)

PurchaseCost(li) == OrZeroFloat(li.line_total)

\* agg[key]
PurchaseAgg(rows, key) ==
    LET mine == SelectSeq(rows, LAMBDA r : PurchaseKey(r) = key)
    IN  [material |-> key[1], supplier |-> key[2],
         qty_yd3 |-> SumOver(mine, PurchaseYd3), cost |-> SumOver(mine, PurchaseCost)]

\* sorted by (material, supplier)
KeyLt(a, b) == StrLt(a[1], b[1]) \/ (a[1] = b[1] /\ StrLt(a[2], b[2]))

RECURSIVE SortedPairs(_)
SortedPairs(keys) ==
    IF keys = {} THEN <<>>
    ELSE LET k == CHOOSE x \in keys : \A y \in keys : y = x \/ KeyLt(x, y)
         IN  <<k>> \o SortedPairs(keys \ {k})

PurchasesData(rows) ==
    LET keys == SortedPairs({PurchaseKey(rows[i]) : i \in 1..Len(rows)})
    IN  [i \in 1..Len(keys) |-> PurchaseAgg(rows, keys[i])]

\* ---- staff_reports_sales, lines 988-1036 ----

SalesProduct(li) == normalize_material_name(OrText(li.material_key, li.item_name))

Aggregate(li) == SalesProduct(li) # "other"

SalesUnit(li) == Lower(OrText(li.unit, "yd3"))

\* lines 1008-1012: the quantity added to qty_yd3
SalesReportQty(li) ==
    IF SalesUnit(li) \in {"bag", "bags"}
    THEN to_yd3(OrZeroFloat(li.quantity), OrText(li.unit, "yd3"), SalesProduct(li))
    ELSE OrZeroFloat(li.quantity)

\* line 1013: the revenue, of the converted quantity when line_total is 0
SalesReportRevenue(li) ==
    IF RIsZero(li.line_total)
    THEN RMul(SalesReportQty(li), OrZeroFloat(li.unit_price))
    ELSE li.line_total

SalesOf(rows, p) == SelectSeq(rows, LAMBDA li : SalesProduct(li) = p)

SalesProducts(rows) ==
    SortedKeys({SalesProduct(rows[i]) : i \in {j \in 1..Len(rows) : Aggregate(rows[j])}})

\* lines 1019-1022
SalesDataRow(rows, p) ==
    LET qty == SumOver(SalesOf(rows, p), SalesReportQty)
        revenue == SumOver(SalesOf(rows, p), SalesReportRevenue)
    IN  [product |-> p, qty_yd3 |-> qty, revenue |-> revenue,
         avg_price |-> IF RLt(RZero, qty) THEN RDiv(revenue, qty) ELSE RZero]

SalesData(rows) ==
    LET ps == SalesProducts(rows)
    IN  [i \in 1..Len(ps) |-> SalesDataRow(rows, ps[i])]

\* ---- staff_reports_gp, lines 1039-1194 ----

\* lines 1061-1070 and 1123-1130: the volume of a line sold by the bag
GpBagYd3(li) ==
    IF SalesUnit(li) \in {"bag", "bags"}
    THEN to_yd3(OrZeroFloat(li.quantity), SalesUnit(li), SalesProduct(li))
    ELSE RZero

\* the volume of a line
GpYd3(li) ==
    IF SalesUnit(li) \in {"bag", "bags"} THEN GpBagYd3(li)
    ELSE IF SalesUnit(li) = "yd3" THEN OrZeroFloat(li.quantity)
    ELSE to_yd3(OrZeroFloat(li.quantity), SalesUnit(li), SalesProduct(li))

\* lines 1071-1072 and 1131
GpRevenue(li) ==
    IF RIsZero(li.line_total)
    THEN RMul(OrZeroFloat(li.quantity), OrZeroFloat(li.unit_price))
    ELSE li.line_total

\* lines 1089 and 1133
PackagingCostPerYd3(product) ==
    IF product \in AGGREGATES THEN RMul(BAG_COST_PER_BAG, RInt(BAGS_PER_YD3)) ELSE RZero

\* lines 1091 and 1134
Cogs(cost_per_yd3, qty, product, bag_qty_yd3) ==
    RAdd(RMul(cost_per_yd3, qty), RMul(PackagingCostPerYd3(product), bag_qty_yd3))

\* lines 1093, 1113 and 1144 without the percentage
Margin_Ratio(gp, revenue) == IF RLt(RZero, revenue) THEN RDiv(gp, revenue) ELSE RZero

\* lines 1093, 1113 and 1144: the margin in percent
Margin(gp, revenue) ==
    IF RLt(RZero, revenue) THEN RMul(RDiv(gp, revenue), RInt(100)) ELSE RZero

\* lines 1085-1102: the row of a product
GpDataRow(rows, avg_cost, p) ==
    LET mine == SalesOf(rows, p)
        qty == SumOver(mine, GpYd3)
        revenue == SumOver(mine, GpRevenue)
        cogs == Cogs(AvgCostOf(avg_cost, p), qty, p, SumOver(mine, GpBagYd3))
    IN  [product |-> p, qty_yd3 |-> qty, revenue |-> revenue,
         avg_cost_yd3 |-> AvgCostOf(avg_cost, p), cogs |-> cogs,
         gp |-> RSub(revenue, cogs), margin |-> Margin(RSub(revenue, cogs), revenue)]

GpData(rows, avg_cost) ==
    LET ps == SalesProducts(rows)
    IN  [i \in 1..Len(ps) |-> GpDataRow(rows, avg_cost, ps[i])]

\* lines 1107-1114
Grand(data) ==
    LET revenue == FloatSum([i \in 1..Len(data) |-> data[i].revenue])
        cogs == FloatSum([i \in 1..Len(data) |-> data[i].cogs])
    IN  [qty_yd3 |-> FloatSum([i \in 1..Len(data) |-> data[i].qty_yd3]),
         revenue |-> revenue, cogs |-> cogs, gp |-> RSub(revenue, cogs),
         margin |-> Margin(RSub(revenue, cogs), revenue)]

\* line 1136
CustomerOf(r) == OrText(Strip(OrText(r.customer_name, "Unknown")), "Unknown")

\* the cost of one line without the packaging of the bags
LineCogs_NoPackaging(avg_cost, li) ==
    RMul(AvgCostOf(avg_cost, SalesProduct(li)), GpYd3(li))

\* line 1134: the cost of one line
LineCogs(avg_cost, li) ==
    Cogs(AvgCostOf(avg_cost, SalesProduct(li)), GpYd3(li), SalesProduct(li), GpBagYd3(li))

\* lines 1142-1153: the row of a customer
CustomerRow(rows, avg_cost, c) ==
    LET mine == SelectSeq(rows, LAMBDA r : Aggregate(r) /\ CustomerOf(r) = c)
        revenue == SumOver(mine, GpRevenue)
        cogs == SumOver(mine, LAMBDA li : LineCogs(avg_cost, li))
    IN  [customer |-> c, qty_yd3 |-> SumOver(mine, GpYd3), revenue |-> revenue,
         cogs |-> cogs, gp |-> RSub(revenue, cogs),
         margin |-> Margin(RSub(revenue, cogs), revenue)]

ByCustomer(rows, avg_cost) ==
    LET cs == SortedKeys({CustomerOf(rows[i]) :
                             i \in {j \in 1..Len(rows) : Aggregate(rows[j])}})
    IN  [i \in 1..Len(cs) |-> CustomerRow(rows, avg_cost, cs[i])]

\* line 1167
OpexTotal(rows, from_date, to_date) ==
    SumOver(SelectSeq(rows, LAMBDA e : ExpenseInRange(e, from_date, to_date)),
            LAMBDA e : OrZeroFloat(e.amount))

\* the most rows a table of the report model holds
MaxReportRows == 2

\* the from and to arguments of the report requests
ReportDays == {"", "2"}

PurchasePool ==
    <<PurchaseRow("sand", "River sand", "bag", RInt(4), RInt(3), RInt(12),
                  "Acme", "", DateOf(2), Noon(2)),
      PurchaseRow("", "Sharp Sand", "yd3", RInt(2), RInt(15), None,
                  "", "Bob", NullDate, Noon(1)),
      PurchaseRow("sand", "sand", "ton", RInt(1), RInt(100), RInt(100),
                  "Acme", "", DateOf(3), Noon(3)),
      PurchaseRow("", "Cement", "bags", RInt(5), RInt(10), RInt(50),
                  "", "", DateOf(2), Noon(2))>>

SalesPool ==
    <<SalesRow("Sand", "sand", "bag", RInt(4), RInt(5), RInt(20), "Ann", Noon(2)),
      SalesRow("Gravel", "", "yd3", RInt(2), RZero, RZero, "", Noon(1)),
      SalesRow("Sharp sand", "", "yd3", RInt(1), RInt(50), RInt(50), "Ann", Noon(3)),
      SalesRow("Cement", "cement", "bags", RInt(3), RInt(10), RInt(30), "Bob", Noon(2))>>

ExpensePool == {<<>>, <<[date_dt |-> DateOf(2), amount |-> RInt(5)]>>}

\* the tables of up to MaxReportRows rows of a pool, in the order of the pool
TablesOf(pool) ==
    UNION {{[i \in 1..n |-> pool[ix[i]]] :
               ix \in {f \in [1..n -> 1..Len(pool)] :
                          \A i \in 1..n : \A j \in 1..n : i < j => f[i] <= f[j]}} :
           n \in 0..MaxReportRows}

InitReport ==
    /\ MergeIdle
    /\ LastIdle
    /\ LoadIdle
    /\ FloatIdle
    /\ FeeIdle
    /\ StaffIdle
    /\ ShopIdle
    /\ AiIdle
    /\ AdviseIdle
    /\ UserIdle
    /\ envBagsPerYd3 \in {"", "10"}
    /\ envBagCost \in {"", "0"}
    /\ purchaseRows \in TablesOf(PurchasePool)
    /\ salesRows \in TablesOf(SalesPool)
    /\ expenseRows \in ExpensePool
    /\ reportResp = NoReport

\* the rows of the queries of a request
PurchasesFound(from_date, to_date) ==
    SelectSeq(purchaseRows, LAMBDA r : PurchaseInRange(r, from_date, to_date))

SalesFound(from_date, to_date) ==
    SelectSeq(salesRows, LAMBDA r : SalesInRange(r, from_date, to_date))

\* a report request writes no table; the model answers one request for each
\* content of the tables
ReportTables == <<envBagsPerYd3, envBagCost, purchaseRows, salesRows, expenseRows>>

\* GET /staff/reports/purchases rendered as a page (lines 786-844)
StaffReportsPurchases ==
    \E from_date \in ReportDays, to_date \in ReportDays :
        /\ reportResp = NoReport
        /\ reportResp' = Report("purchases", from_date, to_date,
                                PurchasesData(PurchasesFound(from_date, to_date)),
                                NoGrand, <<>>, RZero, <<>>)
        /\ UNCHANGED <<ReportTables, notReport>>

\* GET /staff/reports/sales rendered as a page (lines 988-1036)
StaffReportsSales ==
    \E from_date \in ReportDays, to_date \in ReportDays :
        /\ reportResp = NoReport
        /\ reportResp' = Report("sales", from_date, to_date,
                                SalesData(SalesFound(from_date, to_date)),
                                NoGrand, <<>>, RZero, <<>>)
        /\ UNCHANGED <<ReportTables, notReport>>

\* lines 1077-1169 with the rows of the sales query and the average costs
GpReport(from_date, to_date, found, avg_cost) ==
    Report("gp", from_date, to_date, GpData(found, avg_cost),
           Grand(GpData(found, avg_cost)), ByCustomer(found, avg_cost),
           OpexTotal(expenseRows, from_date, to_date), avg_cost)

\* GET /staff/reports/gp rendered as a page (lines 1039-1194)
StaffReportsGp ==
    \E from_date \in ReportDays, to_date \in ReportDays :
        /\ reportResp = NoReport
        /\ reportResp' = GpReport(from_date, to_date, SalesFound(from_date, to_date),
                                  compute_weighted_avg_cost(purchaseRows, from_date, to_date))
        /\ UNCHANGED <<ReportTables, notReport>>

NextReport ==
    \/ StaffReportsPurchases
    \/ StaffReportsSales
    \/ StaffReportsGp

SpecReport == InitReport /\ [][NextReport]_vars

\* the margin of a row of the gross-profit report is its gross profit over
\* its revenue in percent, and 0 for no revenue
MarginOfRow(r) ==
    /\ RLt(RZero, r.revenue) => r.margin = RMul(RDiv(r.gp, r.revenue), RInt(100))
    /\ RIsZero(r.revenue) => r.margin = RZero

\* C16: in the gross-profit report the margin of every row by material, of
\* every row by customer and of the grand total is gross profit / revenue x
\* 100 when the revenue is positive and 0 when the revenue is 0, and the
\* report is rendered
C16_MarginOfRevenue ==
    reportResp.op = "gp" =>
        /\ \A i \in 1..Len(reportResp.rows) : MarginOfRow(reportResp.rows[i])
        /\ \A i \in 1..Len(reportResp.by_customer) : MarginOfRow(reportResp.by_customer[i])
        /\ MarginOfRow(reportResp.grand)

\* a gross-profit report with a material and a customer of no revenue, and a
\* material and a grand total of positive revenue and a margin that is not 0
C16_Witness ==
    /\ reportResp.op = "gp"
    /\ \E i \in 1..Len(reportResp.rows) : RIsZero(reportResp.rows[i].revenue)
    /\ \E i \in 1..Len(reportResp.by_customer) : RIsZero(reportResp.by_customer[i].revenue)
    /\ \E i \in 1..Len(reportResp.rows) :
           /\ RLt(RZero, reportResp.rows[i].revenue)
           /\ ~RIsZero(reportResp.rows[i].margin)
    /\ RLt(RZero, reportResp.grand.revenue)
    /\ ~RIsZero(reportResp.grand.margin)

\* a line denominated in bags
BagLine(li) == Lower(Strip(li.unit)) \in {"bag", "bags"}

\* what a bag-denominated line of the material named is to contribute: its
\* quantity over the bags of a cubic yard for sand, gravel and sharp sand,
\* 0 for another material
BagContribution(li, name) ==
    IF normalize_material_name(name) \in AGGREGATES
    THEN RDiv(li.quantity, RInt(BAGS_PER_YD3)) ELSE RZero

PurchaseName(li) == OrText(li.material_key, OrText(li.category, li.description))
SalesName(li) == OrText(li.material_key, li.item_name)

PurchaseBagVolume(li) == BagContribution(li, PurchaseName(li))
SalesBagVolume(li) == BagContribution(li, SalesName(li))

OnlyBags(rows) == \A i \in 1..Len(rows) : BagLine(rows[i])

\* the volume total of the rows of a report
VolumeTotal(rows) == FloatSum([i \in 1..Len(rows) |-> rows[i].qty_yd3])

ReportPurchases == PurchasesFound(reportResp.from_date, reportResp.to_date)
ReportSales == SalesFound(reportResp.from_date, reportResp.to_date)

\* the purchases report of bag-denominated lines
BagsInPurchases ==
    reportResp.op = "purchases" /\ OnlyBags(ReportPurchases) =>
        VolumeTotal(reportResp.rows) = SumOver(ReportPurchases, PurchaseBagVolume)

\* the sales report of bag-denominated lines
BagsInSales ==
    reportResp.op = "sales" /\ OnlyBags(ReportSales) =>
        VolumeTotal(reportResp.rows) = SumOver(ReportSales, SalesBagVolume)

\* the gross-profit report of bag-denominated lines
BagsInGp ==
    reportResp.op = "gp" /\ OnlyBags(ReportSales) =>
        /\ VolumeTotal(reportResp.rows) = SumOver(ReportSales, SalesBagVolume)
        /\ reportResp.grand.qty_yd3 = SumOver(ReportSales, SalesBagVolume)

\* the weighted average cost of a material bought by the bag only
BagsInAvgCost ==
    reportResp.op = "gp" /\ OnlyBags(ReportPurchases) =>
        \A p \in AGGREGATES :
            LET mine == SelectSeq(ReportPurchases, LAMBDA li : PurchaseProduct(li) = p)
                volume == SumOver(mine, PurchaseBagVolume)
            IN  RLt(RZero, volume) =>
                    /\ p \in DOMAIN reportResp.avg_cost
                    /\ reportResp.avg_cost[p] = RDiv(SumOver(mine, LineCost), volume)

\* C17: in the purchases, sales and gross-profit reports and in the weighted
\* average cost a bag-denominated line of sand, gravel or sharp sand
\* contributes quantity / bags-per-yd3 to the volume total and a
\* bag-denominated line of another material contributes 0
C17_BagsToYd3 ==
    /\ BagsInPurchases
    /\ BagsInSales
    /\ BagsInGp
    /\ BagsInAvgCost

\* the purchase lines of the window for the material p
PurchasesOf(p) == SelectSeq(ReportPurchases, LAMBDA li : PurchaseProduct(li) = p)

\* the purchased volume and the purchase cost of the material p in the window
PurchasedVolume(p) == SumOver(PurchasesOf(p), LineYd3)
PurchasedCost(p) == SumOver(PurchasesOf(p), LineCost)

\* the weighted average cost of a material bought in the window is its cost
\* over its volume
AvgIsCostOverVolume ==
    reportResp.op = "gp" =>
        \A p \in AGGREGATES :
            RLt(RZero, PurchasedVolume(p)) =>
                /\ p \in DOMAIN reportResp.avg_cost
                /\ reportResp.avg_cost[p] = RDiv(PurchasedCost(p), PurchasedVolume(p))

\* a material not bought in the window has average cost 0 and a gross profit
\* that is its revenue
NotBoughtIsZeroCost ==
    reportResp.op = "gp" =>
        \A i \in 1..Len(reportResp.rows) :
            RIsZero(PurchasedVolume(reportResp.rows[i].product)) =>
                /\ reportResp.rows[i].avg_cost_yd3 = RZero
                /\ reportResp.rows[i].gp = reportResp.rows[i].revenue

\* C18: the weighted average cost of a material is its total purchase cost in
\* the window over its total converted purchased volume in the window, and a
\* material of no purchased volume in the window is reported with average
\* cost 0 and a gross profit equal to its revenue
C18_WeightedAverageCost ==
    /\ AvgIsCostOverVolume
    /\ NotBoughtIsZeroCost

(***************************************************************************)
(* merge_prices on the tables of the loaders                               *)
(***************************************************************************)

\* the most tables merge_prices is handed (_safe_load_prices hands it three)
MaxTables == 3

MergeKeys == {"sand_m3", "cement_bag"}

\* the values of a key in a table: None or a price
MergeValues == {None, RInt(5), RInt(7)}

\* the price tables over the keys of the model
MergeTables == UNION {[ks -> MergeValues] : ks \in SUBSET MergeKeys}

InitMerge ==
    /\ LastIdle
    /\ LoadIdle
    /\ FloatIdle
    /\ FeeIdle
    /\ StaffIdle
    /\ ShopIdle
    /\ AiIdle
    /\ AdviseIdle
    /\ UserIdle
    /\ ReportIdle
    /\ mergeDicts \in UNION {[1..n -> MergeTables] : n \in 0..MaxTables}
    /\ mergeOut = MergePending

\* a call merge_prices(*mergeDicts) (loaders.py lines 282-289, called at
\* app.py line 315); the loop assigns to out only
MergePrices ==
    /\ ~mergeOut.called
    /\ mergeOut' = [called |-> TRUE, table |-> merge_prices(mergeDicts)]
    /\ UNCHANGED <<mergeDicts, notMerge>>

NextMerge == MergePrices

SpecMerge == InitMerge /\ [][NextMerge]_vars

\* the prices given for the key k across the tables
PricesGiven(dicts, k) ==
    {dicts[i][k] : i \in {j \in 1..Len(dicts) : k \in DOMAIN dicts[j] /\ dicts[j][k] # None}}

\* the lowest of a set of prices
Lowest(ps) == CHOOSE x \in ps : \A y \in ps : RLe(x, y)

\* out has the keys given a price by a table, each with the lowest price given
LowestPriceWins(dicts, out) ==
    /\ DOMAIN out = {k \in MergeKeys : PricesGiven(dicts, k) # {}}
    /\ \A k \in DOMAIN out : out[k] = Lowest(PricesGiven(dicts, k))

\* the tables in another order
Reordered(dicts, f) == [i \in 1..Len(dicts) |-> dicts[f[i]]]

\* C19: merge_prices returns for every key with a value that is not None in
\* some table the lowest price given for it across the tables (equal prices
\* yield that price), the same for every ordering of the tables, and leaves
\* the tables as they were
C19_LowestPriceWins ==
    [][ mergeOut'.called /\ ~mergeOut.called =>
            /\ LowestPriceWins(mergeDicts, mergeOut'.table)
            /\ \A f \in Permutations(1..Len(mergeDicts)) :
                   merge_prices(Reordered(mergeDicts, f)) = mergeOut'.table
            /\ mergeDicts' = mergeDicts ]_vars

\* merge_prices returned for three tables: one key has a lower price in the
\* first table than in the last and None in between, the other the same price
\* in two tables
C19_Witness ==
    /\ mergeOut.called
    /\ Len(mergeDicts) = 3
    /\ mergeDicts[1] = [k \in MergeKeys |-> RInt(5)]
    /\ mergeDicts[2] = [k \in MergeKeys |-> IF k = "sand_m3" THEN None ELSE RInt(5)]
    /\ mergeDicts[3] = [k \in {"sand_m3"} |-> RInt(7)]
    /\ mergeOut.table = [k \in MergeKeys |-> RInt(5)]

\* C20: an exception raised inside a request handler is answered with a
\* generic 500 response whose body has neither the message of the exception
\* nor a stack trace
C20_GenericServerError ==
    adviseResp.raised =>
        /\ adviseResp.code = 500
        /\ adviseResp.error = "Server error"
        /\ ~adviseResp.detail
        /\ ~adviseResp.trace

(***************************************************************************)
(* The expenses: POST /api/staff/expenses and _validate_expenses           *)
(***************************************************************************)

\* the categories the Expense model names (app.py line 251)
EXPENSE_CATEGORIES == {"salaries", "fuel", "maintenance", "other"}

\* a row of the Expense table
Expense(date, date_dt, category, description, amount) ==
    [date |-> date, date_dt |-> date_dt, category |-> category,
     description |-> description, amount |-> amount]

\* the body of a request: "invalid" for what is no JSON, "array" for a JSON
\* array, else an object with the values under its keys (JNull for none)
ExpenseBody(json, id, date, category, description, amount) ==
    [json |-> json, id |-> id, date |-> date, category |-> category,
     description |-> description, amount |-> amount]

ExpenseResponse(code, ok, error) == [code |-> code, ok |-> ok, error |-> error]

\* what the handler leaves: the response and the Expense table
ExpenseSaved(resp, table) == [resp |-> resp, table |-> table]

\* datetime.strptime(date_s, "%Y-%m-%d").date(), None when it raises; a date
\* text of the model is the numeral of its day
ParsedDate(text) ==
    IF \A i \in 1..Len(text) : IsDigit(Ch(text, i)) THEN DateOf(DigitsToNat(text))
    ELSE NullDate

\* lines 913-917: date_dt
DateDt(date_s) == IF date_s = "" THEN NullDate ELSE ParsedDate(date_s)

\* lines 919-936: the table after the update or the insert, for the values read
ExpenseStored(table, eid, row) ==
    IF eid # 0
    THEN IF eid \in 1..Len(table)
         THEN ExpenseSaved(ExpenseResponse(200, TRUE, ""), [table EXCEPT ![eid] = row])
         ELSE ExpenseSaved(ExpenseResponse(404, FALSE, "Expense not found"), table)
    ELSE ExpenseSaved(ExpenseResponse(200, TRUE, ""), Append(table, row))

\* lines 904-936 on the body of a JSON object
ExpenseOfBody(body, table) ==
    IF \/ StripRaises(body.date) \/ StripRaises(body.category)
       \/ StripRaises(body.description)
    THEN ExpenseSaved(ExpenseResponse(500, FALSE, "Server error"), table)
    ELSE IF OrEmptyStripped(body.category) = "" \/ FloatLe(AmountOf(body.amount), RZero)
    THEN ExpenseSaved(ExpenseResponse(400, FALSE,
                                      "category and positive amount are required"), table)
    ELSE ExpenseStored(table, body.id,
                       Expense(OrEmptyStripped(body.date),
                               DateDt(OrEmptyStripped(body.date)),
                               OrEmptyStripped(body.category),
                               OrEmptyStripped(body.description),
                               AmountOf(body.amount)))

\* api_staff_expenses_save, app.py lines 896-939: a JSON array has no get and
\* the exception reaches handle_500
api_staff_expenses_save(body, table) ==
    IF body.json = "invalid"
    THEN ExpenseSaved(ExpenseResponse(400, FALSE, "Invalid JSON"), table)
    ELSE IF body.json = "array"
    THEN ExpenseSaved(ExpenseResponse(500, FALSE, "Server error"), table)
    ELSE ExpenseOfBody(body, table)

ExpenseBodies ==
    { ExpenseBody("invalid", 0, JNull, JNull, JNull, JNull),
      ExpenseBody("array", 0, JNull, JNull, JNull, JNull),
      ExpenseBody("object", 0, JText("2"), JText(" fuel "), JText("diesel"), JNum(RInt(40))),
      ExpenseBody("object", 0, JText("soon"), JText("travel"), JNull, JText("12.5")),
      ExpenseBody("object", 0, JNull, JText("other"), JText("x"), JNum(RZero)),
      ExpenseBody("object", 0, JNull, JNull, JText("x"), JNum(RInt(5))),
      ExpenseBody("object", 0, JNull, JNum(RInt(7)), JNull, JNum(RInt(5))),
      ExpenseBody("object", 1, JText("3"), JText("Salaries"), JNull, JNum(RInt(900))),
      ExpenseBody("object", 9, JNull, JText("fuel"), JNull, JNum(RInt(5))) }

\* the lists handed to _validate_expenses
ExpenseLists ==
    {NoList} \cup
    {JList(items) :
        items \in ListsOf({ ExpenseItem(JText(" Fuel "), JText("diesel"), JNum(RInt(12))),
                            ExpenseItem(JText("Travel"), JNull, JText("40")),
                            ExpenseItem(JText("other"), JText("x"), JNum(RZero)),
                            NoExpenseDict })}

\* what a step on the expenses leaves alone
notExpense == <<firstVars, aiVars, adviseVars, userVars, mergeVars, envBagsPerYd3,
                envBagCost, purchaseRows, salesRows, reportResp, uploadVars, fallbackVars,
                authVars>>

InitExpense == FirstIdle /\ MoreIdle

\* POST /api/staff/expenses
ApiStaffExpensesSave ==
    \E body \in ExpenseBodies :
        /\ expenseCalls < MaxCalls
        /\ expenseResp' = api_staff_expenses_save(body, expenseRows).resp
        /\ expenseRows' = api_staff_expenses_save(body, expenseRows).table
        /\ expenseCalls' = expenseCalls + 1
        /\ UNCHANGED <<expensesValidated, notExpense>>

\* a call _validate_expenses(raw)
ValidateExpenses ==
    \E raw \in ExpenseLists :
        /\ expensesValidated = NotValidated
        /\ expensesValidated' = validate_expenses(raw)
        /\ UNCHANGED <<expenseResp, expenseCalls, expenseRows, notExpense>>

NextExpense ==
    \/ ApiStaffExpensesSave
    \/ ValidateExpenses

SpecExpense == InitExpense /\ [][NextExpense]_vars

\* C21: every stored Expense and every item _validate_expenses returns has a
\* category that is one of salaries, fuel, maintenance and other
C21_CategoryInEnum ==
    /\ \A i \in 1..Len(expenseRows) : expenseRows[i].category \in EXPENSE_CATEGORIES
    /\ \A i \in 1..Len(expensesValidated.out) :
           expensesValidated.out[i].category \in EXPENSE_CATEGORIES

(***************************************************************************)
(* POST /api/uploads: the requests run at the same time, each one file of  *)
(* its loop at a step                                                      *)
(***************************************************************************)

\* the most files of a request and the last millisecond of the clock
MaxFiles == 2
MaxClock == 2

ALLOWED_EXTS == {"png", "jpg", "jpeg", "webp", "gif", "pdf"}

\* filename.rsplit(".", 1)[1]
AfterLastDot(filename) ==
    LET dots == {i \in 1..Len(filename) : Ch(filename, i) = "."}
        last == CHOOSE i \in dots : \A j \in dots : j <= i
    IN  SubSeq(filename, last + 1, Len(filename))

\* _allowed_file, app.py lines 56-57
allowed_file(filename) ==
    Contains(filename, ".") /\ Lower(AfterLastDot(filename)) \in ALLOWED_EXTS

\* "_".join(text.split()) on a text without leading or trailing blanks
RECURSIVE JoinWords(_)
JoinWords(text) ==
    IF text = "" THEN ""
    ELSE IF Ch(text, 1) = " " THEN "_" \o JoinWords(LStrip(text))
    ELSE Ch(text, 1) \o JoinWords(Tail(text))

\* str.strip("._")
RECURSIVE StripDots(_)
StripDots(text) ==
    IF text # "" /\ Ch(text, 1) \in {".", "_"} THEN StripDots(Tail(text))
    ELSE IF text # "" /\ Ch(text, Len(text)) \in {".", "_"}
    THEN StripDots(SubSeq(text, 1, Len(text) - 1))
    ELSE text

\* werkzeug's secure_filename (called at app.py line 1215) on the letters,
\* digits, dots, underscores and blanks of the model
secure_filename(filename) == StripDots(JoinWords(Strip(filename)))

\* app.py line 1217
unique_name(ms, fname) == ToString(ms) \o "_" \o fname

\* the filenames of the parts of a request
UploadNames == {"plan.png", "plan 1.pdf", "plan_1.pdf", "run.exe", ""}

InitUpload ==
    /\ FirstIdle
    /\ EarlierIdle
    /\ ExpenseIdle
    /\ FallbackIdle
    /\ AuthIdle
    /\ uploadClock = 0
    /\ uploadFiles \in [UploadRequests -> UNION {[1..n -> UploadNames] : n \in 0..MaxFiles}]
    /\ uploadAt = [r \in UploadRequests |-> 1]
    /\ uploadSaved = <<>>
    /\ uploadDisk = NoDisk
    /\ uploadResp = [r \in UploadRequests |-> 0]

notUpload == <<earlierVars, expenseVars, fallbackVars, authVars>>

\* a millisecond passes
ClockTick ==
    /\ uploadClock < MaxClock
    /\ uploadClock' = uploadClock + 1
    /\ UNCHANGED <<uploadFiles, uploadAt, uploadSaved, uploadDisk, uploadResp, notUpload>>

\* the request r returns
UploadReturns(r, code) ==
    /\ uploadAt' = [uploadAt EXCEPT ![r] = 0]
    /\ uploadResp' = [uploadResp EXCEPT ![r] = code]

\* lines 1204-1206: a request without files
UploadNoFiles(r) ==
    /\ uploadAt[r] = 1
    /\ uploadFiles[r] = <<>>
    /\ UploadReturns(r, 400)
    /\ UNCHANGED <<uploadClock, uploadFiles, uploadSaved, uploadDisk, notUpload>>

\* lines 1210-1211: a part without a filename
UploadSkip(r) ==
    /\ uploadAt[r] \in 1..Len(uploadFiles[r])
    /\ uploadFiles[r][uploadAt[r]] = ""
    /\ uploadAt' = [uploadAt EXCEPT ![r] = @ + 1]
    /\ UNCHANGED <<uploadClock, uploadFiles, uploadSaved, uploadDisk, uploadResp, notUpload>>

\* lines 1212-1213: a file of a type that is not allowed ends the request
UploadUnsupported(r) ==
    /\ uploadAt[r] \in 1..Len(uploadFiles[r])
    /\ uploadFiles[r][uploadAt[r]] # ""
    /\ ~allowed_file(uploadFiles[r][uploadAt[r]])
    /\ UploadReturns(r, 400)
    /\ UNCHANGED <<uploadClock, uploadFiles, uploadSaved, uploadDisk, notUpload>>

\* lines 1214-1226: the file is saved under its unique name; f.save writes
\* over a file of that name
UploadSave(r) ==
    /\ uploadAt[r] \in 1..Len(uploadFiles[r])
    /\ uploadFiles[r][uploadAt[r]] # ""
    /\ allowed_file(uploadFiles[r][uploadAt[r]])
    /\ LET name == unique_name(uploadClock, secure_filename(uploadFiles[r][uploadAt[r]]))
       IN  /\ uploadDisk' = [n \in DOMAIN uploadDisk \cup {name} |->
                                IF n = name THEN <<r, uploadAt[r]>> ELSE uploadDisk[n]]
           /\ uploadSaved' = Append(uploadSaved,
                                    [request |-> r, file |-> uploadAt[r], name |-> name])
    /\ uploadAt' = [uploadAt EXCEPT ![r] = @ + 1]
    /\ UNCHANGED <<uploadClock, uploadFiles, uploadResp, notUpload>>

\* lines 1228-1231: after the loop
UploadDone(r) ==
    /\ uploadFiles[r] # <<>>
    /\ uploadAt[r] = Len(uploadFiles[r]) + 1
    /\ UploadReturns(r, IF \E i \in 1..Len(uploadSaved) : uploadSaved[i].request = r
                        THEN 200 ELSE 400)
    /\ UNCHANGED <<uploadClock, uploadFiles, uploadSaved, uploadDisk, notUpload>>

ApiUploadsNoFiles == \E r \in UploadRequests : UploadNoFiles(r)
ApiUploadsSkip == \E r \in UploadRequests : UploadSkip(r)
ApiUploadsUnsupported == \E r \in UploadRequests : UploadUnsupported(r)
ApiUploadsSave == \E r \in UploadRequests : UploadSave(r)
ApiUploadsDone == \E r \in UploadRequests : UploadDone(r)

NextUpload ==
    \/ ClockTick
    \/ ApiUploadsNoFiles
    \/ ApiUploadsSkip
    \/ ApiUploadsUnsupported
    \/ ApiUploadsSave
    \/ ApiUploadsDone

SpecUpload == InitUpload /\ [][NextUpload]_vars

\* C22: any two files api_uploads stored, in one request or in requests that
\* run at the same time, are stored under distinct names, and each is still
\* the file under its name
C22_DistinctNames ==
    /\ \A i \in 1..Len(uploadSaved) : \A j \in 1..Len(uploadSaved) :
           i # j => uploadSaved[i].name # uploadSaved[j].name
    /\ \A i \in 1..Len(uploadSaved) :
           uploadDisk[uploadSaved[i].name] = <<uploadSaved[i].request, uploadSaved[i].file>>

(***************************************************************************)
(* Rebar priced per kg (loaders.py lines 98-109 and 172-184).              *)
(***************************************************************************)
\* lines 105-106: the name marks the row as priced per kg
NamedPerKg(name_up) == Contains(name_up, " KG") \/ Contains(name_up, "PER KG")

\* the rebar rows of the model whose name marks them as priced per kg and
\* that give no length in the name or the columns: <<price, nominal diameter>>
PerKgNoLength == ("Rebar 12mm mild per kg" :> <<10, "1/2">>)

\* C23: load_steel converts a rebar row whose name marks it as priced per kg
\* and that gives no explicit length to price x kg-per-meter of its nominal
\* diameter (1/2: 0.994), not to the price divided by a stick length
C23_PerKgRebar ==
    \A i \in 1..Len(steelRows) :
        /\ steelRows[i].name \in DOMAIN PerKgNoLength
        /\ NamedPerKg(Upper(steelRows[i].name))
        => steelRows[i].price_per_m =
               RMul(RInt(PerKgNoLength[steelRows[i].name][1]),
                    KG_PER_M(PerKgNoLength[steelRows[i].name][2]))

(***************************************************************************)
(* The categories of load_building (loaders.py lines 216-268).             *)
(***************************************************************************)
\* the block size of the first of the tests 4, 6, 8 that the name passes
FirstBlockSize(up) ==
    IF BlockDigit(up, "4") \/ Contains(up, "4X8X16") THEN "4"
    ELSE IF BlockDigit(up, "6") \/ Contains(up, "6X8X16") THEN "6"
    ELSE IF BlockDigit(up, "8") \/ Contains(up, "8X8X16") THEN "8"
    ELSE ""

\* the key of the first rule, in the order cement, block, mesh, tie wire,
\* purlin, paint, that the name passes, with the first sub-class in its order;
\* "" when the rule gives no key or no rule is passed
FirstRuleKey(up) ==
    IF IsCement(up) THEN CementKey(up)
    ELSE IF Contains(up, "BLOCK")
    THEN BlockKeyOf(FirstBlockSize(up), Contains(up, "CLAY") \/ Contains(up, "RED"))
    ELSE IF Contains(up, "MESH") /\ Contains(up, "A142") THEN "mesh_A142_sheet"
    ELSE IF Contains(up, "TIE WIRE") \/ Contains(up, "BINDING WIRE") THEN "tie_wire_kg"
    ELSE IF Contains(up, "PURLIN") THEN PurlinKind(up)
    ELSE IF (Contains(up, "PAINT") \/ Contains(up, "EMULSION")) /\ Contains(up, "GAL")
    THEN "paint_gal"
    ELSE ""

\* C24: a turn of the loop of load_building changes the table at most under
\* the key of the first rule (cement, block, mesh, tie wire, purlin, paint)
\* that the uppercased name passes, the sub-class (cement grade, block size
\* 4/6/8, purlin profile Z/C) being the first that matches in its order; a row
\* that passes no rule adds no key
C24_FirstRule ==
    [][(loader = "building" /\ rowIdx' = rowIdx + 1) =>
           \A k \in DOMAIN prices' :
               k # FirstRuleKey(Upper(csvRows[rowIdx].name)) =>
                   k \in DOMAIN prices /\ prices'[k] = prices[k]]_vars

(***************************************************************************)
(* _chat_completion_with_fallback call by call (ai_text.py lines 82-113):  *)
(* each call of client.chat.completions.create returns or raises.          *)
(***************************************************************************)
FallbackEnvModels == {Unset, "", "gpt-4o", "gpt-4.1"}
FallbackEnvFallbacks == {"", ",", "gpt-4o, gpt-4o-mini", "gpt-4o,gpt-4o", " o3 ,,gpt-4.1"}

notFallback == <<earlierVars, expenseVars, uploadVars, authVars>>

InitFallback ==
    /\ FirstIdle
    /\ AdviseIdle
    /\ UserIdle
    /\ ReportIdle
    /\ MergeIdle
    /\ ExpenseIdle
    /\ UploadIdle
    /\ AuthIdle
    /\ openaiKey = TRUE
    /\ envModel \in FallbackEnvModels
    /\ envFallbacks \in FallbackEnvFallbacks
    /\ aiCall = NoAiCall
    /\ aiOut = AiEmpty
    /\ fbKind \in {"text", "vision"}
    /\ fbSequence = <<>>
    /\ fbPc = "start"
    /\ fbCalls = <<>>
    /\ fbLastErr = ""
    /\ fbOut = ""

\* lines 91-92: last_err = None, and the for statement evaluates
\* _get_model_sequence(model_kind) once
FallbackStart ==
    /\ fbPc = "start"
    /\ fbSequence' = get_model_sequence(PrimaryModel(envModel), envFallbacks)
    /\ fbPc' = "loop"
    /\ UNCHANGED <<fbKind, fbCalls, fbLastErr, fbOut, notFallback>>

\* the model the loop is at
FallbackModel == fbSequence[Len(fbCalls) + 1]

FallbackInLoop == fbPc = "loop" /\ Len(fbCalls) < Len(fbSequence)

\* lines 93-106: create(model=model_name, ...) returns and the response is
\* returned
FallbackCallReturns ==
    /\ FallbackInLoop
    /\ fbCalls' = Append(fbCalls, [model |-> FallbackModel, ok |-> TRUE])
    /\ fbOut' = FallbackModel
    /\ fbPc' = "returned"
    /\ UNCHANGED <<fbKind, fbSequence, fbLastErr, notFallback>>

\* lines 107-110: create raises an Exception: last_err = e; continue
FallbackCallRaises ==
    /\ FallbackInLoop
    /\ fbCalls' = Append(fbCalls, [model |-> FallbackModel, ok |-> FALSE])
    /\ fbLastErr' = FallbackModel
    /\ UNCHANGED <<fbKind, fbSequence, fbPc, fbOut, notFallback>>

\* lines 111-113: after the loop, raise last_err, or the RuntimeError when
\* there was no model
FallbackRaise ==
    /\ fbPc = "loop"
    /\ Len(fbCalls) = Len(fbSequence)
    /\ fbOut' = IF fbLastErr # "" THEN fbLastErr ELSE "RuntimeError"
    /\ fbPc' = "raised"
    /\ UNCHANGED <<fbKind, fbSequence, fbCalls, fbLastErr, notFallback>>

NextFallback ==
    \/ FallbackStart
    \/ FallbackCallReturns
    \/ FallbackCallRaises
    \/ FallbackRaise

SpecFallback == InitFallback /\ [][NextFallback]_vars

\* the list _get_model_sequence returns in the environment of the call
FallbackSequence == get_model_sequence(PrimaryModel(envModel), envFallbacks)

\* the calls made so far went to the first models of the sequence, in its
\* order
CallsInSequenceOrder ==
    /\ Len(fbCalls) <= Len(FallbackSequence)
    /\ \A i \in 1..Len(fbCalls) : fbCalls[i].model = FallbackSequence[i]

\* the primary model, when there is one, is called first
PrimaryFirst ==
    fbCalls # <<>> /\ PrimaryModel(envModel) # "" =>
        fbCalls[1].model = PrimaryModel(envModel)

\* no model is called twice
EachModelOnce ==
    \A i, j \in 1..Len(fbCalls) : i # j => fbCalls[i].model # fbCalls[j].model

\* a call that returned is the last call, and its response is what is returned
StopsAtFirstSuccess ==
    /\ \A i \in 1..Len(fbCalls) : fbCalls[i].ok => i = Len(fbCalls) /\ fbPc = "returned"
    /\ fbPc = "returned" =>
           /\ fbCalls # <<>>
           /\ fbCalls[Len(fbCalls)].ok
           /\ fbOut = fbCalls[Len(fbCalls)].model

\* an error is raised only when every model of the sequence was called and
\* failed, and it is the error of the last of them
RaisesLastError ==
    fbPc = "raised" =>
        /\ Len(fbCalls) = Len(FallbackSequence)
        /\ \A i \in 1..Len(fbCalls) : ~fbCalls[i].ok
        /\ fbCalls # <<>> => fbOut = fbCalls[Len(fbCalls)].model

\* C25: _chat_completion_with_fallback calls the models in the order of
\* _get_model_sequence (the primary first, then the fallbacks, each distinct
\* model at most once), stops at the first call that succeeds and returns its
\* response without calling a later model, and raises the error of the last
\* model tried only after every model of the sequence has failed
C25_FallbackOrder ==
    /\ CallsInSequenceOrder
    /\ PrimaryFirst
    /\ EachModelOnce
    /\ StopsAtFirstSuccess
    /\ RaisesLastError

\* with OPENAI_MODEL = gpt-4o and the fallbacks "gpt-4o, gpt-4o-mini", gpt-4o
\* failed and the response of gpt-4o-mini was returned
C25_Witness ==
    /\ fbPc = "returned"
    /\ envModel = "gpt-4o"
    /\ envFallbacks = "gpt-4o, gpt-4o-mini"
    /\ fbCalls = <<[model |-> "gpt-4o", ok |-> FALSE], [model |-> "gpt-4o-mini", ok |-> TRUE]>>
    /\ fbOut = "gpt-4o-mini"

\* every model of the sequence failed and the error of the last was raised
C25_AllFailed ==
    /\ fbPc = "raised"
    /\ Len(fbCalls) = 3
    /\ fbOut = fbCalls[3].model

(***************************************************************************)
(* The diameter in a rebar's name (loaders.py lines 78-90 and 168-187).    *)
(***************************************************************************)
\* the name has the token as a word of its own
SeparateWord(up, token) == Contains(" " \o up \o " ", " " \o token \o " ")

\* the nominal diameter the uppercased name states: 3/8, 1/2, 5/8 or 3/4 as a
\* separate word, or 10MM, 12MM, 16MM, 20MM; "" for none
NamedDiameter(up) ==
    IF SeparateWord(up, "3/8") \/ Contains(up, "10MM") THEN "3/8"
    ELSE IF SeparateWord(up, "1/2") \/ Contains(up, "12MM") THEN "1/2"
    ELSE IF SeparateWord(up, "5/8") \/ Contains(up, "16MM") THEN "5/8"
    ELSE IF SeparateWord(up, "3/4") \/ Contains(up, "20MM") THEN "3/4"
    ELSE ""

\* C26: every rebar row load_steel kept whose name contains a nominal diameter
\* token has an entry in the price table under rebar_<corr|mild>_<diameter>_m;
\* "Rebar 1/2 corr 6m" gives the key rebar_corr_1_2_m
C26_DiameterKey ==
    \A i \in 1..Len(steelRows) :
        /\ steelRows[i].kind = "rebar"
        /\ NamedDiameter(Upper(steelRows[i].name)) # ""
        => /\ RebarKey(NamedDiameter(Upper(steelRows[i].name)), steelRows[i].grade)
                  \in DOMAIN prices
           /\ steelRows[i].name = "Rebar 1/2 corr 6m" =>
                  "rebar_corr_1_2_m" \in DOMAIN prices

(***************************************************************************)
(* The stored delivery fee of a user (app.py lines 97-119, 606-630,        *)
(* 1769-1806).                                                             *)
(***************************************************************************)
\* C27: after signup and any requests to me_location and me_recompute and any
\* calls of ensure_delivery_computed, a user with a stored delivery_fee has a
\* stored distance_km, which is the haversine distance of the stored lat and
\* lng from the warehouse, and the fee is compute_delivery_fee_km(distance_km)
C27_FeeOfStoredDistance ==
    userDeliveryFee # None =>
        /\ userDistanceKm # None
        /\ userLocated
        /\ userDistanceKm = userKm
        /\ userDeliveryFee =
               compute_delivery_fee_km(userDistanceKm, BASE_FEE, PER_KM, FREE_RADIUS_KM)

(***************************************************************************)
(* api_staff_save_purchase with an invoice already stored (app.py lines    *)
(* 1287-1429): the lines of another invoice.                               *)
(***************************************************************************)
\* the body that stored the first invoice: one line of sand
FirstPurchase ==
    PBody(0, [supplier_id |-> 0, supplier_name |-> "", tax |-> None, total |-> None],
          <<PLine(0, "sand", "yd3", RInt(3), RInt(2), None)>>)

FirstUpsert == UpsertLines(FirstPurchase.lines, 1, Upsert({}, 0, RZero, {}))

\* the tables after POST /api/staff/purchases with FirstPurchase
InitPurchase ==
    /\ MoreIdle
    /\ LoadIdle
    /\ FloatIdle
    /\ FeeIdle
    /\ ShopIdle
    /\ suppliers = <<>>
    /\ invoices = <<InvoiceOf(FirstPurchase, 0, FirstUpsert)>>
    /\ lineItems = FirstUpsert.rows
    /\ lastLineId = FirstUpsert.last
    /\ receipts = <<>>
    /\ receiptLines = <<>>
    /\ validated = <<>>
    /\ staffResp = [op |-> "purchase", code |-> 200, id |-> 1]
    /\ staffCalls = 0

NextPurchase ==
    \/ SavePurchaseNoLines
    \/ SavePurchaseNotFound
    \/ SavePurchase

SpecPurchase == InitPurchase /\ [][NextPurchase]_vars

\* the request with the body is the step taken, and it saved the invoice inv_id
SavedPurchase(body, inv_id) ==
    /\ staffCalls < MaxCalls
    /\ body.lines # <<>>
    /\ body.id = 0 \/ body.id <= Len(invoices)
    /\ inv_id = (IF body.id # 0 THEN body.id ELSE Len(invoices) + 1)
    /\ PurchaseCommit(body, inv_id)

\* the line of the body has the id of a row of another invoice
ForeignLine(li, inv_id) ==
    LineKept(li) /\ li.id # 0 /\ \E r \in lineItems : r.id = li.id /\ r.invoice_id # inv_id

\* the line of the body is stored as a new row of the invoice
StoredAsNew(li, inv_id) ==
    \E r \in lineItems' :
        /\ r.id > lastLineId
        /\ r = PurchaseLineItem(r.id, inv_id, li, LineTotalOf(li))

\* C28: a save of the invoice I leaves every line item of another invoice as
\* it is, stores a submitted line whose id is that of another invoice's line
\* as a new line of I, and removes only lines of I
C28_OtherInvoicesUntouched ==
    [][\A body \in PBodies, inv_id \in 1..(Len(invoices) + 1) :
           SavedPurchase(body, inv_id) =>
               /\ \A r \in lineItems : r.invoice_id # inv_id => r \in lineItems'
               /\ \A r \in lineItems \ lineItems' : r.invoice_id = inv_id
               /\ \A i \in 1..Len(body.lines) :
                      ForeignLine(body.lines[i], inv_id) =>
                          StoredAsNew(body.lines[i], inv_id)]_vars

\* the invoice 2 was saved with the gravel line that names the row 1, the row
\* 1 is still the sand of invoice 1, and an update of invoice 2 removed one
\* of its rows
C28_Witness ==
    /\ Len(invoices) = 2
    /\ staffCalls = 2
    /\ staffResp = [op |-> "purchase", code |-> 200, id |-> 2]
    /\ \E r \in lineItems : r.id = 1 /\ r.invoice_id = 1 /\ r.description = "sand"
    /\ \E r \in lineItems : r.invoice_id = 2 /\ r.description = "gravel" /\ r.id > 2
    /\ ~\E r \in lineItems : r.id = 2

(***************************************************************************)
(* The totals of the gross-profit report (app.py lines 1053-1169).         *)
(***************************************************************************)
\* the sum of the field f over the rows of a table of the report
ColumnSum(rows, f) == FloatSum([i \in 1..Len(rows) |-> rows[i][f]])

EmailMatch(e, at) ==
    /\ Ch(e, at) = "@"
    /\ at > 1
    /\ \A i \in 1..Len(e) : Ch(e, i) # " " /\ (i # at => Ch(e, i) # "@")
    /\ \E dot \in (at + 2)..(Len(e) - 1) : Ch(e, dot) = "."

\* lines 542-543
is_valid_email(e) == e # "" /\ \E at \in 1..Len(e) : EmailMatch(e, at)

\* int(age_raw) of lines 583-584 for an unsigned text: -1 stands for the
\* ValueError
AgeOf(age_raw) ==
    IF age_raw # "" /\ (\A i \in 1..Len(age_raw) : IsDigit(Ch(age_raw, i)))
    THEN DigitsToNat(age_raw)
    ELSE -1

\* bcrypt.generate_password_hash and check_password_hash (lines 612 and 656)
PasswordHash(password) == "$2b$" \o password
check_password_hash(hash, password) == hash = PasswordHash(password)

\* the fields of the signup form the handler reads for the account
SignupForm(username, email, password, confirm, age, is_staff) ==
    [username |-> username, email |-> email, password |-> password,
     confirm |-> confirm, age |-> age, is_staff |-> is_staff]

\* lines 576-587: the errors of the form
SignupErrors(form) ==
    \/ Len(Strip(form.username)) < 3
    \/ ~is_valid_email(Lower(Strip(form.email)))
    \/ Len(form.password) < 6
    \/ form.password # form.confirm
    \/ AgeOf(Strip(form.age)) < 13

\* lines 594-599: the email or the username is taken
SignupTaken(form, users) ==
    \E i \in 1..Len(users) :
        \/ users[i].email = Lower(Strip(form.email))
        \/ users[i].username = Strip(form.username)

\* lines 613-622: the User row of the form; is_staff is the form's field
UserOfForm(form) ==
    [username |-> Strip(form.username), email |-> Lower(Strip(form.email)),
     password |-> PasswordHash(form.password), is_staff |-> form.is_staff # ""]

\* the account the staff of the business made for one of them
StaffAccount ==
    [username |-> "sam", email |-> "sam@x.tt", password |-> PasswordHash("letmein"),
     is_staff |-> TRUE]

\* the users that hold staff rights given by existing staff
GrantedStaff == {1}

SignupForms ==
    { SignupForm(username, email, password, confirm, age, is_staff) :
        username \in {"eve", "bob", "ab", "sam"},
        email \in {" Eve@x.tt", "bob@x.tt", "sam@x.tt", "eve@x"},
        password \in {"secret", "hunter2", "abc"}, confirm \in {"secret", "hunter2"},
        age \in {"30", "12", "x"}, is_staff \in {"", "1"} }

LoginEmails == {"eve@x.tt", "bob@x.tt", "Sam@x.tt "}
LoginPasswords == {"secret", "hunter2", "letmein"}

notAuth == <<earlierVars, expenseVars, uploadVars, fallbackVars>>

InitAuth ==
    /\ FirstIdle
    /\ EarlierIdle
    /\ ExpenseIdle
    /\ UploadIdle
    /\ FallbackIdle
    /\ authUsers = <<StaffAccount>>
    /\ authSession = 0
    /\ authResp = AuthResponse("none", 0, 0)

\* lines 557-559 and 645-647: /signup or /login of a browser that is logged in
AlreadySignedIn ==
    \E op \in {"signup", "login"} :
        /\ authSession # 0
        /\ authResp' = AuthResponse(op, 302, 0)
        /\ UNCHANGED <<authUsers, authSession, notAuth>>

\* POST /signup with a form that has errors or a taken email or username
\* (lines 576-599): the page is rendered again
SignupRejected ==
    \E form \in SignupForms :
        /\ authSession = 0
        /\ SignupErrors(form) \/ SignupTaken(form, authUsers)
        /\ authResp' = AuthResponse("signup", 200, 0)
        /\ UNCHANGED <<authUsers, authSession, notAuth>>

\* POST /signup that creates the account (lines 601-632)
Signup ==
    \E form \in SignupForms :
        /\ authSession = 0
        /\ ~SignupErrors(form)
        /\ ~SignupTaken(form, authUsers)
        /\ authUsers' = Append(authUsers, UserOfForm(form))
        /\ authResp' = AuthResponse("signup", 302, 0)
        /\ UNCHANGED <<authSession, notAuth>>

\* line 655: User.query.filter_by(email=email).first(), 0 for None
UserByEmail(users, email) ==
    IF \E i \in 1..Len(users) : users[i].email = email
    THEN SetMin({i \in 1..Len(users) : users[i].email = email})
    ELSE 0

\* lines 655-656
LoginAccepted(users, email, password) ==
    /\ UserByEmail(users, email) # 0
    /\ check_password_hash(users[UserByEmail(users, email)].password, password)

\* POST /login (lines 650-663)
Login ==
    \E email \in LoginEmails, password \in LoginPasswords :
        /\ authSession = 0
        /\ IF LoginAccepted(authUsers, Lower(Strip(email)), password)
           THEN /\ authSession' = UserByEmail(authUsers, Lower(Strip(email)))
                /\ authResp' = AuthResponse("login", 302, 0)
           ELSE /\ authSession' = authSession
                /\ authResp' = AuthResponse("login", 200, 0)
        /\ UNCHANGED <<authUsers, notAuth>>

\* /logout (lines 667-672), behind login_required: logout_user() and the
\* redirect to /login, or the redirect of _unauth (lines 550-553)
Logout ==
    /\ authSession' = 0
    /\ authResp' = AuthResponse("logout", 302, 0)
    /\ UNCHANGED <<authUsers, notAuth>>

\* staff_required, lines 415-425, around a handler of /api/staff/...: the
\* status, and the user the handler ran for
staff_required(users, session) ==
    IF session = 0 THEN AuthResponse("staff", 302, 0)
    ELSE IF ~users[session].is_staff THEN AuthResponse("staff", 403, 0)
    ELSE AuthResponse("staff", 200, session)

\* a request to a route wrapped by staff_required
StaffRoute ==
    /\ authResp' = staff_required(authUsers, authSession)
    /\ UNCHANGED <<authUsers, authSession, notAuth>>

NextAuth ==
    \/ AlreadySignedIn
    \/ SignupRejected
    \/ Signup
    \/ Login
    \/ Logout
    \/ StaffRoute

SpecAuth == InitAuth /\ [][NextAuth]_vars

\* C30: a handler wrapped by staff_required runs only for a logged-in user
\* whose is_staff flag is set, and never for a visitor who signed up and
\* logged in without being given staff rights by existing staff
C30_StaffOnly ==
    authResp.served # 0 =>
        /\ authUsers[authResp.served].is_staff
        /\ authResp.served \in GrantedStaff

\* the part of C30 that holds: a staff-only handler runs only for a logged-in
\* user whose is_staff flag is set
C30_FlagRequired ==
    authResp.served # 0 =>
        /\ authSession = authResp.served
        /\ authUsers[authResp.served].is_staff

====
